---- MODULE Spec2Model ----
(***************************************************************************)
(* Rebalancing execution engine of hudulgi/qm.                             *)
(*                                                                         *)
(*   buy_gem.py        single-winner (GEM) script: monthly guard,          *)
(*                     selection, execute_rebalancing, execution log       *)
(*   buy_portfolio.py  ranked multi-holding script: execute_buy_orders     *)
(*                                                                         *)
(* Every broker call, every time.sleep and every log-file access of the    *)
(* two scripts is one event of the history variable trace.  The broker,    *)
(* the clock and the file system are the environment: their answers are    *)
(* chosen nondeterministically from small sets.                            *)
(***************************************************************************)
EXTENDS Integers, Sequences, FiniteSets, TLC

(***************************************************************************)
(* Program constants                                                       *)
(***************************************************************************)
MAX_RETRIES == 3
RETRY_DELAY == 1000           \* milliseconds (1 s)
ORDER_DELAY == 500            \* milliseconds (0.5 s)
REBALANCE_WAIT_TIME == 60000  \* milliseconds (60 s)
BUFFER_PERCENT == 99          \* BUFFER_RATIO = 0.99
TOTAL_INVESTMENT == 20017330  \* buy_portfolio.py: 20_000_000 + 17_330

\* candidate instruments of the single-winner script, in candidate order
target_codes == <<"069500", "379800", "423160">>

\* words whose presence in a broker error message forbids a retry.  The
\* source lists them in Korean: balance, insufficient, quantity, not
\* possible, business day, market closed, market ended, before market
\* open, trading halted.
no_retry_keywords ==
    {"jango", "bujok", "suryang", "bulga", "yeongeopil", "jangmagam",
     "jangjongryo", "jangsijakjeon", "maemaegeoraejeongji"}

(***************************************************************************)
(* Bounds of the model                                                     *)
(***************************************************************************)
MaxQty == 2        \* most shares an account holds, over all instruments
MaxMonth == 2      \* calendar months the clock runs through
MaxRuns == 2       \* invocations of the single-winner script
MaxFailures == 3   \* broker submissions that raise, in a one-run behaviour
MaxLost == 1       \* of those, submissions the broker took all the same
MaxIoFailures == 1 \* failing accesses to the execution-log file
MaxPlan == 2       \* rows of the ranked-mode buy plan
MaxReturn == 3     \* largest total return handed to the selection
MaxUniverse == 11  \* instruments of the universe the ranked selection scans
MaxExtraMonths == 1 \* month-end closes beyond the 13 the momentum needs
MaxOverlap == 2    \* runs of the single-winner script sharing the log file
MaxCount == 3
MaxExtraBars == 1  \* daily bars beyond the least number asked for
MaxDay == 2        \* days the scheduler may be started on
MaxValid == 2      \* days with a valid NAV around each requested date
MaxForward == 1    \* days after each requested date the NAV source covers
MaxCapital == 12   \* largest small investment and quote of the buy sizing
TickCycles == 1    \* tick increments explored at each end of a price band

(***************************************************************************)
(* Value domains                                                           *)
(***************************************************************************)
Codes == {target_codes[i] : i \in 1..Len(target_codes)}
NoneInt == 0 - 1                      \* Python None where a number is expected
Prices == {300, 1001}                 \* live quotes the broker may return
Investments == {1000}                 \* --investment / account total value
TotalReturns == {8, 20}               \* 12-month total returns, in percent
EndPrices == {7000000, 25000000}      \* end_price column of a plan

\* an error message is the sequence of its words
ErrorMessages == { <<"jumun", "ganeung", "suryang", "chogwa">>,
                   <<"connection", "timeout">> }

\* what one order submission can do: return an order handle, raise without
\* the broker having taken the order, or raise (time out) after the broker
\* took it
BrokerResponses ==
    { [raised |-> FALSE, accepted |-> TRUE, msg |-> <<>>] }
    \cup { [raised |-> TRUE, accepted |-> FALSE, msg |-> m] : m \in ErrorMessages }
    \cup { [raised |-> TRUE, accepted |-> TRUE, msg |-> <<"connection", "timeout">>] }

SaveOutcomes == {"ok", "open_failed", "write_failed"}

\* the command line: --execute and --force (--virtual and --investment are
\* read once, where the investment amount is determined)
Args == [execute : BOOLEAN, force : BOOLEAN]

TOP_MOMENTUM_COUNT == 100
BOTTOM_FIP_COUNT == 10

RECURSIVE Shares(_, _)
\* the shares held in all, over the instruments i, i+1, ...
Shares(h, i) ==
    IF i > Len(target_codes) THEN 0
    ELSE h[target_codes[i]] + Shares(h, i + 1)

\* the accounts a cycle is run on
Accounts == {h \in [Codes -> 0..MaxQty] : Shares(h, 1) <= MaxQty}

NoArgs == [execute |-> FALSE, force |-> FALSE]

VARIABLES
    now,             \* current calendar month (datetime.now(), "%Y-%m")
    execution_log,   \* gem_execution_log.json: the "executions" list
    log_corrupt,     \* the file exists but is not valid JSON
    account,         \* broker side: quantity really held per instrument
    broker_orders,   \* broker side: orders accepted during the current run
    trace,           \* history of the current run: broker calls and sleeps
    budget,          \* failures the environment may still produce
    runs_left,       \* runs of the script that may still be started
    forced,          \* some run so far was started with --force
    mode,            \* which script the process runs: "gem" or "ranked"
    pc,              \* position of the running script
    args,            \* parsed command line of the current run
    exit_reason,     \* why the last run of the script returned
    best_stock,      \* selected instrument (results[0] after the sort)
    total_investment,
    holdings,        \* holdings as read at the start of the cycle
    sell_queue,      \* non_target_holdings not yet processed
    attempt,         \* loop variable of the retry loop in progress
    results,         \* return value of execute_rebalancing
    current_price,
    buy_qty,
    df_buy,          \* ranked mode: the buy plan, one row per target
    idx,             \* ranked mode: row being processed (0-based)
    order_results,   \* ranked mode: return value of execute_buy_orders
    ranked_success,  \* history: month of the last live ranked-mode run that
                     \* ended without a failed order, 0 when there is none
    tick_price,      \* argument of a call of round_to_tick_size
    rounded,         \* its return value, None before the call
    candidate_returns, \* total returns handed to the selection, when the
                     \* selection is examined on its own
    signal_valid,    \* per instrument of the universe: does
                     \* calculate_momentum_and_fip_for_period return a result
    selected_stocks, \* what select_portfolio_stocks returned
    month_closes,    \* df_monthly['Close'], when the momentum is examined
    momentum_12m_adj, \* the adjusted momentum computed from it
    overlap_runs,    \* per run of the single-winner script, when several
                     \* runs share the log file: its position, the log it
                     \* read, its outcome and which runs were under way
                     \* when it passed the guard
    tick_pair,       \* two prices round_to_tick_size is called with
    tick_calls,      \* the calls made so far: argument and return value
    call_args,       \* when one function is examined on its own: what it
                     \* is called with (a sequence of one record)
    call_result      \* and what it returned (empty until it returns)

vars == <<now, execution_log, log_corrupt, account, broker_orders, trace,
          budget, runs_left, forced, mode, pc, args, exit_reason, best_stock,
          total_investment, holdings, sell_queue, attempt, results,
          current_price, buy_qty, df_buy, idx, order_results,
          ranked_success, tick_price, rounded,
          candidate_returns, signal_valid, selected_stocks, month_closes,
          momentum_12m_adj, overlap_runs, tick_pair, tick_calls,
          call_args, call_result>>

logVars == <<execution_log, log_corrupt>>
gemLocals == <<best_stock, total_investment, holdings, sell_queue, attempt,
               results, current_price, buy_qty>>
rankedVars == <<df_buy, idx, order_results>>
tickVars == <<tick_price, rounded>>
momentumVars == <<month_closes, momentum_12m_adj>>
pairVars == <<tick_pair, tick_calls>>
callVars == <<call_args, call_result>>
moreVars == <<overlap_runs, pairVars, callVars>>
inputVars == <<candidate_returns, signal_valid, selected_stocks,
               momentumVars, moreVars>>

(***************************************************************************)
(* Events of the history                                                   *)
(***************************************************************************)
Ev(op, code, qty, price, att, out, ms) ==
    [op |-> op, code |-> code, qty |-> qty, price |-> price, att |-> att,
     out |-> out, ms |-> ms]

SleepEv(why, ms) == Ev("sleep", why, 0, 0, 0, "", ms)

ResponseKind(resp) ==
    IF ~resp.raised THEN "ok"
    ELSE IF resp.accepted THEN "lost" ELSE "error"

OrderEv(side, code, qty, price, att, resp) ==
    [op |-> side, code |-> code, qty |-> qty, price |-> price, att |-> att,
     out |-> ResponseKind(resp), ms |-> 0, msg |-> resp.msg]

RetrySleep_flat(att) ==
    IF att > 1 THEN <<SleepEv("retry", RETRY_DELAY)>> ELSE <<>>

\* the sleep a retry loop takes before attempt att
RetrySleep(att) ==
    IF att > 1 THEN <<SleepEv("retry", RETRY_DELAY * (att - 1))>> ELSE <<>>

IsOrder(e) == e.op \in {"sell", "buy"}

\* what the broker accepted: side, instrument, quantity, price, condition
Accept(orders, side, code, qty, price, condition, resp) ==
    IF resp.accepted
    THEN Append(orders, [side |-> side, code |-> code, qty |-> qty,
                         price |-> price, condition |-> condition])
    ELSE orders

\* the environment may answer a submission with resp
Allowed(resp) ==
    /\ resp.raised => budget.failures > 0
    /\ (resp.raised /\ resp.accepted) => budget.lost > 0

Spend(resp) ==
    [budget EXCEPT
        !.failures = IF resp.raised THEN @ - 1 ELSE @,
        !.lost = IF resp.raised /\ resp.accepted THEN @ - 1 ELSE @]

\* the file system may fail a read (read_ok = FALSE) or a write
IoAllowed(read_ok, save) ==
    (IF read_ok THEN 0 ELSE 1) + (IF save = "ok" THEN 0 ELSE 1) <= budget.io

IoSpend(read_ok, save) ==
    [budget EXCEPT !.io = @ - (IF read_ok THEN 0 ELSE 1)
                            - (IF save = "ok" THEN 0 ELSE 1)]

(***************************************************************************)
(* Error classification                                                    *)
(***************************************************************************)
Contains(msg, keyword) == \E i \in 1..Len(msg) : msg[i] = keyword

IsNoRetry_never(msg) == FALSE

\* any(keyword in error_msg for keyword in no_retry_keywords)
IsNoRetry(msg) == \E keyword \in no_retry_keywords : Contains(msg, keyword)

LastAttempt_early(att) == att = MAX_RETRIES - 1

LastAttempt_late(att) == att = MAX_RETRIES + 1

\* attempt == MAX_RETRIES: the for loop over range(1, MAX_RETRIES + 1) ends
LastAttempt(att) == att = MAX_RETRIES

\* the retry loop of one order is over after this response
LoopOver(att, resp) ==
    \/ ~resp.raised
    \/ IsNoRetry(resp.msg)
    \/ LastAttempt(att)

(***************************************************************************)
(* Execution log (buy_gem.py)                                              *)
(***************************************************************************)
\* load_execution_log: the executions read, or none when the file is
\* missing or cannot be opened or parsed
load_execution_log(read_ok) ==
    IF log_corrupt \/ ~read_ok THEN <<>> ELSE execution_log

\* the loop of check_monthly_execution
AlreadyExecuted(log_data, current_month) ==
    \E i \in 1..Len(log_data) :
        log_data[i].month = current_month /\ log_data[i].success

\* save_execution_log: writes log_data, or fails before or while writing
save_execution_log(log_data, save) ==
    CASE save = "ok" -> /\ execution_log' = log_data
                        /\ log_corrupt' = FALSE
      [] save = "open_failed" -> UNCHANGED logVars
      [] save = "write_failed" -> /\ execution_log' = <<>>
                                  /\ log_corrupt' = TRUE

(***************************************************************************)
(* Selection (buy_gem.py main)                                             *)
(***************************************************************************)
RECURSIVE InsertDesc_before(_, _)
InsertDesc_before(s, x) ==
    IF s = <<>> THEN <<x>>
    ELSE IF Head(s).total_return > x.total_return
         THEN <<Head(s)>> \o InsertDesc_before(Tail(s), x)
         ELSE <<x>> \o s

RECURSIVE InsertDesc(_, _)
\* position of x in a list already sorted by total_return descending: after
\* every element that is not smaller (the sort is stable)
InsertDesc(s, x) ==
    IF s = <<>> THEN <<x>>
    ELSE IF Head(s).total_return >= x.total_return
         THEN <<Head(s)>> \o InsertDesc(Tail(s), x)
         ELSE <<x>> \o s

RECURSIVE SortByTotalReturn(_)
\* results.sort(key=lambda x: x['total_return'], reverse=True)
SortByTotalReturn(s) ==
    IF s = <<>> THEN <<>>
    ELSE InsertDesc(SortByTotalReturn(SubSeq(s, 1, Len(s) - 1)), s[Len(s)])

RECURSIVE Resolved_all(_, _)
Resolved_all(ret, i) ==
    IF i > Len(target_codes) THEN <<>>
    ELSE <<[stock_code |-> target_codes[i], total_return |-> ret[i]]>>
         \o Resolved_all(ret, i + 1)

RECURSIVE Resolved(_, _)
\* the results list: one entry per candidate whose total return resolved
Resolved(ret, i) ==
    IF i > Len(target_codes) THEN <<>>
    ELSE (IF ret[i] = NoneInt THEN <<>>
          ELSE <<[stock_code |-> target_codes[i], total_return |-> ret[i]]>>)
         \o Resolved(ret, i + 1)

(***************************************************************************)
(* Holdings                                                                *)
(***************************************************************************)
EmptyHoldings == [c \in Codes |-> 0]

RECURSIVE SeqOfCodes(_, _)
\* the codes of a set in the order the broker lists them (candidate order)
SeqOfCodes(S, i) ==
    IF i > Len(target_codes) THEN <<>>
    ELSE (IF target_codes[i] \in S THEN <<target_codes[i]>> ELSE <<>>)
         \o SeqOfCodes(S, i + 1)

non_target_holdings_with_target(h, target) ==
    SeqOfCodes({c \in Codes : h[c] > 0}, 1)

\* {code: info for code, info in holdings.items() if code != target_code}
non_target_holdings(h, target) ==
    SeqOfCodes({c \in Codes : h[c] > 0 /\ c # target}, 1)

TargetHolding_zero(h, target) == 0

TargetHolding_actual(h, target) == account[target]

\* holdings.get(target_code, {}).get('qty', 0)
TargetHolding(h, target) == h[target]

EmptyResults == [sell_orders |-> <<>>, buy_order |-> <<>>, success |-> FALSE]

(***************************************************************************)
(* Initial state                                                           *)
(***************************************************************************)
\* no function is examined on its own
NoSelectionInputs ==
    /\ signal_valid = <<>>
    /\ selected_stocks = <<>>

NaN == [num |-> 0, den |-> 0]

NoMomentumInputs ==
    /\ month_closes = <<>>
    /\ momentum_12m_adj = NaN

NoOverlap == overlap_runs = <<>>

NoTickPair ==
    /\ tick_pair = <<>>
    /\ tick_calls = {}

NoCall ==
    /\ call_args = <<>>
    /\ call_result = <<>>

NoMore ==
    /\ NoOverlap
    /\ NoTickPair
    /\ NoCall

NoInputs ==
    /\ candidate_returns = <<>>
    /\ NoSelectionInputs
    /\ NoMomentumInputs
    /\ NoMore

InitCommon ==
    /\ now = 1
    /\ execution_log = <<>>
    /\ log_corrupt = FALSE
    /\ broker_orders = <<>>
    /\ trace = <<>>
    /\ forced = FALSE
    /\ pc = "idle"
    /\ args = NoArgs
    /\ exit_reason = ""
    /\ best_stock = ""
    /\ total_investment = NoneInt
    /\ holdings = EmptyHoldings
    /\ sell_queue = <<>>
    /\ attempt = 0
    /\ results = EmptyResults
    /\ current_price = NoneInt
    /\ buy_qty = 0
    /\ idx = 0
    /\ order_results = <<>>
    /\ ranked_success = 0
    /\ rounded = NoneInt

\* one run of the single-winner script, on any account, with a file system
\* that works
Init ==
    /\ InitCommon
    /\ tick_price = NoneInt
    /\ NoInputs
    /\ account \in Accounts
    /\ budget = [failures |-> MaxFailures, lost |-> MaxLost, io |-> 0]
    /\ runs_left = 1
    /\ mode = "gem"
    /\ df_buy = <<>>

\* several runs of the single-winner script, one after the other, on an
\* account that holds one share of the first instrument, with a broker that
\* takes every order and a log file whose accesses may fail
InitRuns ==
    /\ InitCommon
    /\ tick_price = NoneInt
    /\ NoInputs
    /\ account = [c \in Codes |-> IF c = target_codes[1] THEN 1 ELSE 0]
    /\ budget = [failures |-> 0, lost |-> 0, io |-> MaxIoFailures]
    /\ runs_left = MaxRuns
    /\ mode = "gem"
    /\ df_buy = <<>>

(***************************************************************************)
(* buy_gem.py: main                                                        *)
(***************************************************************************)
Exit(reason) ==
    /\ pc' = "idle"
    /\ exit_reason' = reason

GuardApplies_always(a) == ~a.force

\* if args.execute and not args.force
GuardApplies(a) == a.execute /\ ~a.force

\* the script is started with command line a
Run(a) ==
    /\ mode = "gem"
    /\ pc = "idle"
    /\ runs_left > 0
    /\ runs_left' = runs_left - 1
    /\ forced' = (forced \/ a.force)
    /\ args' = a
    /\ pc' = IF GuardApplies(a) THEN "guard" ELSE "auth"
    /\ exit_reason' = ""
    /\ trace' = <<>>
    /\ broker_orders' = <<>>
    /\ best_stock' = ""
    /\ total_investment' = NoneInt
    /\ holdings' = EmptyHoldings
    /\ sell_queue' = <<>>
    /\ attempt' = 0
    /\ results' = EmptyResults
    /\ current_price' = NoneInt
    /\ buy_qty' = 0
    /\ UNCHANGED <<now, ranked_success, tickVars, inputVars,
                   logVars, account, budget, mode, rankedVars>>

\* a run without --force
Start(execute) == Run([execute |-> execute, force |-> FALSE])

\* a run with --force
StartForced(execute) == Run([execute |-> execute, force |-> TRUE])

\* if args.execute and not args.force: if check_monthly_execution(): return
check_monthly_execution(read_ok) ==
    /\ pc = "guard"
    /\ IoAllowed(read_ok, "ok")
    /\ budget' = IoSpend(read_ok, "ok")
    /\ IF AlreadyExecuted(load_execution_log(read_ok), now)
       THEN Exit("AlreadyExecuted")
       ELSE /\ pc' = "auth"
            /\ UNCHANGED exit_reason
    /\ trace' = Append(trace, Ev("load_log", "guard", 0, 0, 0,
                                 IF read_ok THEN "ok" ELSE "error", 0))
    /\ UNCHANGED <<now, ranked_success, tickVars, inputVars,
                   logVars, account, broker_orders, runs_left,
                   forced, mode, args, gemLocals, rankedVars>>

\* kis = initialize_kis(args.secret, args.virtual)
initialize_kis ==
    /\ mode = "gem"
    /\ pc = "auth"
    /\ pc' = "analyze"
    /\ trace' = Append(trace, Ev("auth", "", 0, 0, 0, "ok", 0))
    /\ UNCHANGED <<now, ranked_success, tickVars, inputVars,
                   logVars, account, broker_orders, budget, runs_left,
                   forced, mode, args, exit_reason, gemLocals, rankedVars>>

\* the analysis loop, the sort and the choice of best_stock; ret[i] is the
\* total return calculate_12m_total_return found for candidate i, or None
Analyze(ret) ==
    /\ pc = "analyze"
    /\ LET res == Resolved(ret, 1)
           sorted == SortByTotalReturn(res)
       IN  IF res = <<>>
           THEN /\ Exit("AnalysisFailed")
                /\ UNCHANGED best_stock
           ELSE /\ best_stock' = sorted[1].stock_code
                /\ IF args.execute
                   THEN /\ pc' = "invest"
                        /\ UNCHANGED exit_reason
                   ELSE Exit("AnalysisOnly")
    /\ trace' = Append(trace, Ev("analyze", "", 0, 0, 0, "ok", 0))
    /\ UNCHANGED <<now, ranked_success, tickVars, inputVars,
                   logVars, account, broker_orders, budget, runs_left,
                   forced, mode, args, total_investment, holdings,
                   sell_queue, attempt, results, current_price, buy_qty,
                   rankedVars>>

\* the investment amount: --investment, else the account's total value
\* (balance is what get_total_balance returns, None when it fails)
DetermineInvestment(virtual, investment, balance) ==
    /\ pc = "invest"
    /\ IF investment = NoneInt
       THEN IF virtual
            THEN /\ balance = NoneInt
                 /\ Exit("InvestmentRequired")
                 /\ UNCHANGED <<total_investment, trace>>
            ELSE /\ trace' = Append(trace, Ev("balance", "", 0, 0, 0,
                                 IF balance = NoneInt THEN "error" ELSE "ok", 0))
                 /\ IF balance = NoneInt
                    THEN /\ Exit("BalanceFailed")
                         /\ UNCHANGED total_investment
                    ELSE /\ total_investment' = balance
                         /\ pc' = "holdings"
                         /\ UNCHANGED exit_reason
       ELSE /\ balance = NoneInt
            /\ total_investment' = investment
            /\ pc' = "holdings"
            /\ UNCHANGED <<exit_reason, trace>>
    /\ UNCHANGED <<now, ranked_success, tickVars, inputVars,
                   logVars, account, broker_orders, budget, runs_left,
                   forced, mode, args, best_stock, holdings, sell_queue,
                   attempt, results, current_price, buy_qty, rankedVars>>

(***************************************************************************)
(* buy_gem.py: execute_rebalancing                                         *)
(***************************************************************************)
\* results = {...}; holdings = get_current_holdings(kis); the lookup
\* returns {} when the balance query raises
get_current_holdings(ok) ==
    /\ mode = "gem"
    /\ pc = "holdings"
    /\ LET h == IF ok THEN account ELSE EmptyHoldings
           q == non_target_holdings(h, best_stock)
       IN  /\ holdings' = h
           /\ sell_queue' = q
           /\ attempt' = 1
           /\ pc' = IF q # <<>> THEN "sell" ELSE "check"
    /\ results' = EmptyResults
    /\ trace' = Append(trace, Ev("holdings", "", 0, 0, 0,
                                 IF ok THEN "ok" ELSE "error", 0))
    /\ UNCHANGED <<now, ranked_success, tickVars, inputVars,
                   logVars, account, broker_orders, budget, runs_left,
                   forced, mode, args, exit_reason, best_stock,
                   total_investment, current_price, buy_qty, rankedVars>>

PcAfterSell_leave(queue) == "check"

\* the for loop over non_target_holdings goes on while items remain
PcAfterSell(queue) == IF queue # <<>> THEN "sell" ELSE "check"

\* one pass of the retry loop for the sell at the head of sell_queue
SellAttempt(resp) ==
    /\ mode = "gem"
    /\ pc = "sell"
    /\ Allowed(resp)
    /\ LET code == Head(sell_queue)
           qty == holdings[code]
           sub == RetrySleep(attempt)
                  \o <<OrderEv("sell", code, qty, NoneInt, attempt, resp)>>
           sold == [code |-> code, qty |-> qty, status |-> "success",
                    order |-> Len(broker_orders) + 1]
           fail == [code |-> code, qty |-> qty, status |-> "failed",
                    error |-> resp.msg]
           rest == Tail(sell_queue)
       IN  /\ broker_orders' = Accept(broker_orders, "sell", code, qty,
                                      NoneInt, "None", resp)
           /\ budget' = Spend(resp)
           /\ IF LoopOver(attempt, resp)
              THEN /\ results' = [results EXCEPT !.sell_orders =
                          Append(@, IF resp.raised THEN fail ELSE sold)]
                   /\ sell_queue' = rest
                   /\ attempt' = 1
                   /\ pc' = PcAfterSell(rest)
                   \* time.sleep(ORDER_DELAY) after every instrument, then
                   \* if results['sell_orders']: time.sleep(REBALANCE_WAIT_TIME)
                   /\ trace' = trace \o sub \o <<SleepEv("order", ORDER_DELAY)>>
                        \o (IF rest = <<>>
                            THEN <<SleepEv("settle", REBALANCE_WAIT_TIME)>>
                            ELSE <<>>)
              ELSE /\ attempt' = attempt + 1
                   /\ trace' = trace \o sub
                   /\ UNCHANGED <<results, sell_queue, pc>>
    /\ UNCHANGED <<now, ranked_success, tickVars, inputVars,
                   logVars, account, runs_left, forced, mode, args,
                   exit_reason, best_stock, total_investment, holdings,
                   current_price, buy_qty, rankedVars>>

\* target_holding = holdings.get(target_code, {}).get('qty', 0)
\* if target_holding > 0: results['success'] = True; return results
CheckTargetHolding ==
    /\ mode = "gem"
    /\ pc = "check"
    /\ IF TargetHolding(holdings, best_stock) > 0
       THEN /\ results' = [results EXCEPT !.success = TRUE]
            /\ pc' = "report"
       ELSE /\ pc' = "price"
            /\ UNCHANGED results
    /\ UNCHANGED <<now, ranked_success, tickVars, inputVars,
                   logVars, account, broker_orders, trace, budget,
                   runs_left, forced, mode, args, exit_reason, best_stock,
                   total_investment, holdings, sell_queue, attempt,
                   current_price, buy_qty, rankedVars>>

SafeInvestment_all(total) == total

\* int(total_investment * BUFFER_RATIO)
SafeInvestment(total) == (total * BUFFER_PERCENT) \div 100

BuyQty_positive(total, price) == 1

\* int(safe_investment / current_price)
BuyQty(total, price) == SafeInvestment(total) \div price

\* current_price = get_current_price(kis, target_code) (None when the quote
\* fails) and the computation of buy_qty
PrepareBuy(price) ==
    /\ pc = "price"
    /\ current_price' = price
    /\ trace' = Append(trace, Ev("quote", best_stock, 0, price, 0,
                                 IF price = NoneInt THEN "error" ELSE "ok", 0))
    /\ IF price = NoneInt
       THEN /\ pc' = "report"
            /\ UNCHANGED <<buy_qty, attempt>>
       ELSE /\ buy_qty' = BuyQty(total_investment, price)
            /\ attempt' = 1
            /\ pc' = IF BuyQty(total_investment, price) <= 0
                     THEN "report" ELSE "buy"
    /\ UNCHANGED <<now, ranked_success, tickVars, inputVars,
                   logVars, account, broker_orders, budget, runs_left,
                   forced, mode, args, exit_reason, best_stock,
                   total_investment, holdings, sell_queue, results,
                   rankedVars>>

SuccessAfterBuy_always(resp) == TRUE

\* results['success'] = True is set in the try branch only
SuccessAfterBuy(resp) == ~resp.raised

\* one pass of the retry loop for the buy of the target
BuyAttempt(resp) ==
    /\ mode = "gem"
    /\ pc = "buy"
    /\ Allowed(resp)
    /\ LET sub == RetrySleep(attempt)
                  \o <<OrderEv("buy", best_stock, buy_qty, current_price,
                               attempt, resp)>>
           bought == [code |-> best_stock, qty |-> buy_qty,
                      price |-> current_price, status |-> "success",
                      order |-> Len(broker_orders) + 1]
           fail == [code |-> best_stock, qty |-> buy_qty,
                    status |-> "failed", error |-> resp.msg]
       IN  /\ broker_orders' = Accept(broker_orders, "buy", best_stock,
                                      buy_qty, current_price, "None", resp)
           /\ budget' = Spend(resp)
           /\ trace' = trace \o sub
           /\ IF LoopOver(attempt, resp)
              THEN /\ results' = [results EXCEPT
                          !.buy_order = <<IF resp.raised THEN fail ELSE bought>>,
                          !.success = SuccessAfterBuy(resp)]
                   /\ pc' = "report"
                   /\ UNCHANGED attempt
              ELSE /\ attempt' = attempt + 1
                   /\ UNCHANGED <<results, pc>>
    /\ UNCHANGED <<now, ranked_success, tickVars, inputVars,
                   logVars, account, runs_left, forced, mode, args,
                   exit_reason, best_stock, total_investment, holdings,
                   sell_queue, current_price, buy_qty, rankedVars>>

\* back in main: the report, then record_execution(code, name, success):
\* load the log, append one record for the current date, save
record_execution(read_ok, save) ==
    /\ pc = "report"
    /\ IoAllowed(read_ok, save)
    /\ budget' = IoSpend(read_ok, save)
    /\ LET log_data == load_execution_log(read_ok)
           execution_record == [month |-> now, selected_code |-> best_stock,
                                success |-> results.success]
       IN  save_execution_log(Append(log_data, execution_record), save)
    /\ trace' = Append(trace, Ev("record", best_stock, 0, 0, 0, save, 0))
    /\ Exit(IF results.success THEN "Success" ELSE "Failed")
    /\ UNCHANGED <<now, ranked_success, tickVars, inputVars,
                   account, broker_orders, runs_left, forced,
                   mode, args, gemLocals, rankedVars>>

\* the calendar moves on to the next month.  The script reads the clock in
\* the guard and when it writes the record: a month that ends during a run
\* ends, as far as the script can tell, between those two.
Tick ==
    /\ pc \in {"idle", "report"}
    /\ now < MaxMonth
    /\ now' = now + 1
    /\ UNCHANGED <<logVars, account, broker_orders, trace, budget, runs_left,
                   forced, mode, pc, args, exit_reason, gemLocals,
                   rankedVars, ranked_success, tickVars, inputVars>>

Next ==
    \/ \E execute \in BOOLEAN : Start(execute)
    \/ \E read_ok \in BOOLEAN : check_monthly_execution(read_ok)
    \/ initialize_kis
    \/ \E ret \in [1..Len(target_codes) -> TotalReturns \cup {NoneInt}] :
           Analyze(ret)
    \/ \E virtual \in BOOLEAN, investment \in Investments \cup {NoneInt},
          balance \in Investments \cup {NoneInt} :
           DetermineInvestment(virtual, investment, balance)
    \/ \E ok \in BOOLEAN : get_current_holdings(ok)
    \/ \E resp \in BrokerResponses : SellAttempt(resp)
    \/ CheckTargetHolding
    \/ \E price \in Prices \cup {NoneInt} : PrepareBuy(price)
    \/ \E resp \in BrokerResponses : BuyAttempt(resp)
    \/ \E read_ok \in BOOLEAN, save \in SaveOutcomes :
           record_execution(read_ok, save)

Spec == Init /\ [][Next]_vars

\* the sizing of the buy on its own: execute_rebalancing has found the
\* target not held and is about to ask for its quote
BuyCapitals == (1..MaxCapital) \cup {10000000}

BuyQuotes == (1..MaxCapital) \cup {50000}

InitBuyQty ==
    /\ InitCommon
    /\ tick_price = NoneInt
    /\ NoInputs
    /\ account = EmptyHoldings
    /\ budget = [failures |-> 0, lost |-> 0, io |-> 0]
    /\ runs_left = 0
    /\ mode = "buy_qty"
    /\ df_buy = <<>>

\* main and execute_rebalancing up to the quote, in one step
ReachQuote(code, total) ==
    /\ mode = "buy_qty"
    /\ pc = "idle"
    /\ exit_reason = ""
    /\ pc' = "price"
    /\ best_stock' = code
    /\ total_investment' = total
    /\ args' = [execute |-> TRUE, force |-> FALSE]
    /\ UNCHANGED <<now, ranked_success, tickVars, inputVars, logVars,
                   account, broker_orders, trace, budget, runs_left, forced,
                   mode, exit_reason, holdings, sell_queue, attempt,
                   results, current_price, buy_qty, rankedVars>>

NextBuyQty ==
    \/ \E code \in Codes, total \in BuyCapitals : ReachQuote(code, total)
    \/ \E price \in BuyQuotes \cup {NoneInt} : PrepareBuy(price)

SpecBuyQty == InitBuyQty /\ [][NextBuyQty]_vars

\* the selection on its own: main has the total return of every candidate
\* (None where calculate_12m_total_return failed) and is about to sort
\* main has reached the analysis loop of a run started with the arguments a
InitAnalysis(a) ==
    /\ now = 1
    /\ execution_log = <<>>
    /\ log_corrupt = FALSE
    /\ account = EmptyHoldings
    /\ broker_orders = <<>>
    /\ trace = <<>>
    /\ budget = [failures |-> 0, lost |-> 0, io |-> 0]
    /\ runs_left = 0
    /\ forced = FALSE
    /\ mode = "gem"
    /\ pc = "analyze"
    /\ args = a
    /\ exit_reason = ""
    /\ best_stock = ""
    /\ total_investment = NoneInt
    /\ holdings = EmptyHoldings
    /\ sell_queue = <<>>
    /\ attempt = 0
    /\ results = EmptyResults
    /\ current_price = NoneInt
    /\ buy_qty = 0
    /\ df_buy = <<>>
    /\ idx = 0
    /\ order_results = <<>>
    /\ ranked_success = 0
    /\ tick_price = NoneInt
    /\ rounded = NoneInt
    /\ candidate_returns \in
           [1..Len(target_codes) -> (0..MaxReturn) \cup {NoneInt}]
    /\ NoSelectionInputs
    /\ NoMomentumInputs
    /\ NoMore

InitSelect == InitAnalysis(NoArgs)

NextSelect == Analyze(candidate_returns)

SpecSelect == InitSelect /\ [][NextSelect]_vars

\* the analysis of a run started with or without --execute and --force
InitAnalyze ==
    \E execute \in BOOLEAN : \E force \in BOOLEAN :
        InitAnalysis([execute |-> execute, force |-> force])

SpecAnalyze == InitAnalyze /\ [][NextSelect]_vars

NextRuns ==
    \/ Next
    \/ \E execute \in BOOLEAN : StartForced(execute)
    \/ Tick

(***************************************************************************)
(* buy_portfolio.py                                                        *)
(***************************************************************************)
\* position of a code in the listing order of the instruments
CodeIndex(c) == CHOOSE i \in 1..Len(target_codes) : target_codes[i] = c

\* the rows of a portfolio file: distinct instruments, listed in the order
\* of their codes, each with the end_price the selection stored
PortfolioFiles ==
    { p \in UNION { [1..n -> [code : Codes, end_price : EndPrices]] :
                        n \in 1..MaxPlan } :
        \A i, j \in 1..Len(p) :
            i < j => CodeIndex(p[i].code) < CodeIndex(p[j].code) }

calculate_quantities_undivided(portfolio, total) ==
    [i \in 1..Len(portfolio) |->
        [code |-> portfolio[i].code,
         end_price |-> portfolio[i].end_price,
         qty |-> total \div portfolio[i].end_price]]

\* calculate_quantities: amount_per_stock = total_investment / num_stocks,
\* quantity = int(amount_per_stock / end_price)
calculate_quantities(portfolio, total) ==
    [i \in 1..Len(portfolio) |->
        [code |-> portfolio[i].code,
         end_price |-> portfolio[i].end_price,
         qty |-> (total \div Len(portfolio)) \div portfolio[i].end_price]]

InitRanked ==
    /\ InitCommon
    /\ tick_price = NoneInt
    /\ NoInputs
    /\ account \in Accounts
    /\ budget = [failures |-> MaxFailures, lost |-> MaxLost, io |-> 0]
    /\ runs_left = 1
    /\ mode = "ranked"
    /\ df_buy = <<>>

\* main: the plan is computed from the latest portfolio file; without
\* --execute the script stops there
StartPortfolio(execute, portfolio) ==
    /\ mode = "ranked"
    /\ pc = "idle"
    /\ runs_left > 0
    /\ runs_left' = runs_left - 1
    /\ df_buy' = calculate_quantities(portfolio, TOTAL_INVESTMENT)
    /\ args' = [execute |-> execute, force |-> FALSE]
    /\ IF execute
       THEN /\ pc' = "auth"
            /\ exit_reason' = ""
       ELSE Exit("PlanOnly")
    /\ trace' = <<>>
    /\ broker_orders' = <<>>
    /\ idx' = 0
    /\ order_results' = <<>>
    /\ UNCHANGED <<now, ranked_success, tickVars, inputVars, logVars,
                   account, budget, forced, mode,
                   gemLocals>>

\* kis = initialize_kis(args.secret, args.virtual)
initialize_kis_portfolio ==
    /\ mode = "ranked"
    /\ pc = "auth"
    /\ pc' = "holdings"
    /\ trace' = Append(trace, Ev("auth", "", 0, 0, 0, "ok", 0))
    /\ UNCHANGED <<now, ranked_success, tickVars, inputVars,
                   logVars, account, broker_orders, budget,
                   runs_left, forced, mode, args, exit_reason, gemLocals,
                   rankedVars>>

\* target_codes = set(df_buy['code'].tolist())
PlanCodes(df) == {df[i].code : i \in 1..Len(df)}

non_target_holdings_portfolio_all(h, df) ==
    SeqOfCodes({c \in Codes : h[c] > 0}, 1)

\* {code: info for code, info in holdings.items() if code not in target_codes}
non_target_holdings_portfolio(h, df) ==
    SeqOfCodes({c \in Codes : h[c] > 0 /\ c \notin PlanCodes(df)}, 1)

PcAfterRow_stop(i, df) == "results"

\* where execute_buy_orders goes on after row i (0-based) of the plan
PcAfterRow(i, df) == IF i + 1 < Len(df) THEN "row" ELSE "results"

\* execute_buy_orders: results = []; holdings = get_current_holdings(kis)
get_current_holdings_portfolio(ok) ==
    /\ mode = "ranked"
    /\ pc = "holdings"
    /\ LET h == IF ok THEN account ELSE EmptyHoldings
           q == non_target_holdings_portfolio(h, df_buy)
       IN  /\ holdings' = h
           /\ sell_queue' = q
           /\ attempt' = 1
           /\ pc' = IF q # <<>> THEN "liquidate" ELSE "row"
    /\ order_results' = <<>>
    /\ idx' = 0
    /\ trace' = Append(trace, Ev("holdings", "", 0, 0, 0,
                                 IF ok THEN "ok" ELSE "error", 0))
    /\ UNCHANGED <<now, ranked_success, tickVars, inputVars,
                   logVars, account, broker_orders, budget,
                   runs_left, forced, mode, args, exit_reason, best_stock,
                   total_investment, results, current_price, buy_qty,
                   df_buy>>

PcAfterLiquidate_leave(queue) == "row"

\* the for loop over non_target_holdings goes on while items remain
PcAfterLiquidate(queue) == IF queue # <<>> THEN "liquidate" ELSE "row"

\* if any(r['status'] == 'liquidated' for r in results)
AnyLiquidated(res) == \E i \in 1..Len(res) : res[i].status = "liquidated"

\* phase 1: one pass of the retry loop for the full sell of the non-target
\* holding at the head of sell_queue
LiquidateAttempt(resp) ==
    /\ pc = "liquidate"
    /\ Allowed(resp)
    /\ LET code == Head(sell_queue)
           qty == holdings[code]
           sub == RetrySleep(attempt)
                  \o <<OrderEv("sell", code, qty, NoneInt, attempt, resp)>>
           sold == [code |-> code, status |-> "liquidated",
                    order |-> Len(broker_orders) + 1,
                    current_qty |-> qty, target_qty |-> 0]
           fail == [code |-> code, status |-> "liquidate_failed",
                    error |-> resp.msg,
                    current_qty |-> qty, target_qty |-> 0]
           rest == Tail(sell_queue)
           res == Append(order_results, IF resp.raised THEN fail ELSE sold)
       IN  /\ broker_orders' = Accept(broker_orders, "sell", code, qty,
                                      NoneInt, "None", resp)
           /\ budget' = Spend(resp)
           /\ IF LoopOver(attempt, resp)
              THEN /\ order_results' = res
                   /\ sell_queue' = rest
                   /\ attempt' = 1
                   /\ pc' = PcAfterLiquidate(rest)
                   /\ trace' = trace \o sub \o <<SleepEv("order", ORDER_DELAY)>>
                        \o (IF rest = <<>> /\ AnyLiquidated(res)
                            THEN <<SleepEv("settle", REBALANCE_WAIT_TIME)>>
                            ELSE <<>>)
              ELSE /\ attempt' = attempt + 1
                   /\ trace' = trace \o sub
                   /\ UNCHANGED <<order_results, sell_queue, pc>>
    /\ UNCHANGED <<now, ranked_success, tickVars, inputVars,
                   logVars, account, runs_left, forced, mode, args,
                   exit_reason, best_stock, total_investment, holdings,
                   results, current_price, buy_qty, df_buy, idx>>

\* the row of the plan being processed (idx is 0-based)
Row == df_buy[idx + 1]

CurrentQty_zero(row) == 0

\* current_qty = holdings.get(code, {}).get('qty', 0)
CurrentQty(row) == holdings[row.code]

\* which branch of the loop body a row takes
RowKind(target_qty, current_qty) ==
    IF target_qty <= 0
    THEN (IF current_qty > 0 THEN "sell_all" ELSE "skipped")
    ELSE IF target_qty - current_qty = 0 THEN "unchanged"
    ELSE IF target_qty - current_qty < 0 THEN "sell"
    ELSE "buy"

\* if idx < len(df_buy) - 1: time.sleep(ORDER_DELAY); the branches that end
\* in continue do not reach it
RowDelay(kind, i, df) ==
    IF kind \in {"sell", "buy"} /\ i < Len(df) - 1
    THEN <<SleepEv("order", ORDER_DELAY)>> ELSE <<>>

\* phase 2, a row that needs no order: target 0 and nothing held, or the
\* quantity held equals the target
RowNoOrder ==
    /\ pc = "row"
    /\ RowKind(Row.qty, CurrentQty(Row)) \in {"skipped", "unchanged"}
    /\ order_results' = Append(order_results,
          IF RowKind(Row.qty, CurrentQty(Row)) = "skipped"
          THEN [code |-> Row.code, status |-> "skipped"]
          ELSE [code |-> Row.code, status |-> "unchanged",
                current_qty |-> CurrentQty(Row), target_qty |-> Row.qty])
    /\ idx' = idx + 1
    /\ attempt' = 1
    /\ pc' = PcAfterRow(idx, df_buy)
    /\ UNCHANGED <<now, ranked_success, tickVars, inputVars, logVars,
                   account, broker_orders, trace,
                   budget, runs_left, forced, mode, args,
                   exit_reason, best_stock, total_investment, holdings,
                   sell_queue, results, current_price, buy_qty, df_buy>>

\* phase 2, one pass of the retry loop of a market sell: everything held
\* when the target is 0, else the excess over the target
RowSellAttempt(resp) ==
    /\ pc = "row"
    /\ RowKind(Row.qty, CurrentQty(Row)) \in {"sell_all", "sell"}
    /\ Allowed(resp)
    /\ LET kind == RowKind(Row.qty, CurrentQty(Row))
           target_qty == IF kind = "sell_all" THEN 0 ELSE Row.qty
           sell_qty == IF kind = "sell_all" THEN CurrentQty(Row)
                       ELSE CurrentQty(Row) - Row.qty
           sub == RetrySleep(attempt)
                  \o <<OrderEv("sell", Row.code, sell_qty, NoneInt, attempt,
                               resp)>>
           sold == [code |-> Row.code, status |-> "sell_success",
                    order |-> Len(broker_orders) + 1,
                    current_qty |-> CurrentQty(Row),
                    target_qty |-> target_qty]
           fail == [code |-> Row.code, status |-> "sell_failed",
                    error |-> resp.msg,
                    current_qty |-> CurrentQty(Row),
                    target_qty |-> target_qty]
       IN  /\ broker_orders' = Accept(broker_orders, "sell", Row.code,
                                      sell_qty, NoneInt, "None", resp)
           /\ budget' = Spend(resp)
           /\ IF LoopOver(attempt, resp)
              THEN /\ order_results' = Append(order_results,
                                          IF resp.raised THEN fail ELSE sold)
                   /\ idx' = idx + 1
                   /\ attempt' = 1
                   /\ pc' = PcAfterRow(idx, df_buy)
                   \* a successful sell is followed by the settlement wait
                   /\ trace' = trace \o sub
                        \o (IF ~resp.raised
                            THEN <<SleepEv("settle", REBALANCE_WAIT_TIME)>>
                            ELSE <<>>)
                        \o RowDelay(kind, idx, df_buy)
              ELSE /\ attempt' = attempt + 1
                   /\ trace' = trace \o sub
                   /\ UNCHANGED <<order_results, idx, pc>>
    /\ UNCHANGED <<now, ranked_success, tickVars, inputVars,
                   logVars, account, runs_left, forced, mode, args,
                   exit_reason, best_stock, total_investment, holdings,
                   sell_queue, results, current_price, buy_qty, df_buy>>

\* phase 2, one pass of the retry loop of a limit buy of the shortfall, at
\* the plan's end_price with condition 'best'
RowBuyAttempt(resp) ==
    /\ pc = "row"
    /\ RowKind(Row.qty, CurrentQty(Row)) = "buy"
    /\ Allowed(resp)
    /\ LET delta == Row.qty - CurrentQty(Row)
           sub == RetrySleep(attempt)
                  \o <<OrderEv("buy", Row.code, delta, Row.end_price,
                               attempt, resp)>>
           bought == [code |-> Row.code, status |-> "buy_success",
                      order |-> Len(broker_orders) + 1,
                      attempts |-> attempt,
                      current_qty |-> CurrentQty(Row),
                      target_qty |-> Row.qty]
           fail == [code |-> Row.code, status |-> "buy_failed",
                    error |-> resp.msg, attempts |-> attempt,
                    current_qty |-> CurrentQty(Row),
                    target_qty |-> Row.qty]
       IN  /\ broker_orders' = Accept(broker_orders, "buy", Row.code, delta,
                                      Row.end_price, "best", resp)
           /\ budget' = Spend(resp)
           /\ IF LoopOver(attempt, resp)
              THEN /\ order_results' = Append(order_results,
                                          IF resp.raised THEN fail ELSE bought)
                   /\ idx' = idx + 1
                   /\ attempt' = 1
                   /\ pc' = PcAfterRow(idx, df_buy)
                   /\ trace' = trace \o sub \o RowDelay("buy", idx, df_buy)
              ELSE /\ attempt' = attempt + 1
                   /\ trace' = trace \o sub
                   /\ UNCHANGED <<order_results, idx, pc>>
    /\ UNCHANGED <<now, ranked_success, tickVars, inputVars,
                   logVars, account, runs_left, forced, mode, args,
                   exit_reason, best_stock, total_investment, holdings,
                   sell_queue, results, current_price, buy_qty, df_buy>>

\* the summary counts of execute_buy_orders: no result is a failure
NoOrderFailed(res) ==
    \A k \in 1..Len(res) :
        res[k].status \notin {"liquidate_failed", "sell_failed", "buy_failed"}

\* back in main: the results are written to buy_results_<date>.csv
SaveResults ==
    /\ pc = "results"
    /\ trace' = Append(trace, Ev("save_results", "", 0, 0, 0, "ok", 0))
    /\ Exit("Done")
    /\ ranked_success' = IF NoOrderFailed(order_results) THEN now
                         ELSE ranked_success
    /\ UNCHANGED <<now, tickVars, inputVars, logVars, account,
                   broker_orders, budget,
                   runs_left, forced, mode, args, gemLocals, rankedVars>>

NextRanked ==
    \/ \E execute \in BOOLEAN, portfolio \in PortfolioFiles :
           StartPortfolio(execute, portfolio)
    \/ initialize_kis_portfolio
    \/ \E ok \in BOOLEAN : get_current_holdings_portfolio(ok)
    \/ \E resp \in BrokerResponses : LiquidateAttempt(resp)
    \/ RowNoOrder
    \/ \E resp \in BrokerResponses : RowSellAttempt(resp)
    \/ \E resp \in BrokerResponses : RowBuyAttempt(resp)
    \/ SaveResults

SpecRanked == InitRanked /\ [][NextRanked]_vars

\* several runs of the ranked script, one after the other, on any account
\* whose orders are still open when the next run reads the holdings, with a
\* broker that takes every order
InitRankedRuns ==
    /\ InitCommon
    /\ tick_price = NoneInt
    /\ NoInputs
    /\ account \in Accounts
    /\ budget = [failures |-> 0, lost |-> 0, io |-> 0]
    /\ runs_left = MaxRuns
    /\ mode = "ranked"
    /\ df_buy = <<>>

NextRankedRuns == NextRanked \/ Tick

SpecRankedRuns == InitRankedRuns /\ [][NextRankedRuns]_vars

(***************************************************************************)
(* buy_gem.py: round_to_tick_size                                          *)
(***************************************************************************)
round_to_tick_size_identity(p) == p

\* the if/elif chain: below 1,000 the price itself, else the price rounded
\* up to the increment of its band with ((price + inc - 1) // inc) * inc
round_to_tick_size(p) ==
    IF p < 1000 THEN p
    ELSE IF p < 5000 THEN ((p + 4) \div 5) * 5
    ELSE IF p < 10000 THEN ((p + 9) \div 10) * 10
    ELSE IF p < 50000 THEN ((p + 49) \div 50) * 50
    ELSE IF p < 100000 THEN ((p + 99) \div 100) * 100
    ELSE IF p < 500000 THEN ((p + 499) \div 500) * 500
    ELSE ((p + 999) \div 1000) * 1000

\* the price bands of the docstring: lower limit, upper limit (exclusive; the
\* last band is explored up to 1,000,000) and increment
TickBands ==
    { [lo |-> 1, hi |-> 1000, inc |-> 1],
      [lo |-> 1000, hi |-> 5000, inc |-> 5],
      [lo |-> 5000, hi |-> 10000, inc |-> 10],
      [lo |-> 10000, hi |-> 50000, inc |-> 50],
      [lo |-> 50000, hi |-> 100000, inc |-> 100],
      [lo |-> 100000, hi |-> 500000, inc |-> 500],
      [lo |-> 500000, hi |-> 1000001, inc |-> 1000] }

\* the prices round_to_tick_size is called with: TickCycles increments up
\* from the lower limit and down from the upper limit of every band, and
\* the prices of the worked examples
TickPrices ==
    UNION { (b.lo .. b.lo + TickCycles * b.inc)
            \cup (b.hi - TickCycles * b.inc - 1 .. b.hi - 1) : b \in TickBands }
    \cup {7777, 123456}

\* before a call of round_to_tick_size(tick_price)
InitTick ==
    /\ InitCommon
    /\ NoInputs
    /\ account = EmptyHoldings
    /\ budget = [failures |-> 0, lost |-> 0, io |-> 0]
    /\ runs_left = 0
    /\ mode = "round_to_tick_size"
    /\ df_buy = <<>>
    /\ tick_price \in TickPrices

\* the call returns
RoundToTick ==
    /\ mode = "round_to_tick_size"
    /\ rounded = NoneInt
    /\ rounded' = round_to_tick_size(tick_price)
    /\ UNCHANGED <<now, ranked_success, tick_price, inputVars, logVars,
                   account,
                   broker_orders, trace, budget, runs_left, forced, mode, pc,
                   args, exit_reason, gemLocals, rankedVars>>

SpecTick == InitTick /\ [][RoundToTick]_vars

(***************************************************************************)
(* find_item_fip.py: select_portfolio_stocks                               *)
(***************************************************************************)
Min(a, b) == IF a <= b THEN a ELSE b

\* the signals of instrument i of the universe, when they can be computed
Signal(i) ==
    [code |-> i,
     adjusted_momentum_12m |-> (i * 7) % 5,
     fip |-> (i * 3) % 4]

\* the results list: one row per instrument with a result, in scan order
RECURSIVE SignalResults(_, _)
SignalResults(valid, i) ==
    IF i > Len(valid) THEN <<>>
    ELSE (IF valid[i] THEN <<Signal(i)>> ELSE <<>>)
         \o SignalResults(valid, i + 1)

\* DataFrame.nlargest(n, 'adjusted_momentum_12m'), keep='first'
RECURSIVE InsertByMomentum(_, _)
InsertByMomentum(s, x) ==
    IF s = <<>> THEN <<x>>
    ELSE IF Head(s).adjusted_momentum_12m >= x.adjusted_momentum_12m
         THEN <<Head(s)>> \o InsertByMomentum(Tail(s), x)
         ELSE <<x>> \o s

RECURSIVE SortByMomentum(_)
SortByMomentum(s) ==
    IF s = <<>> THEN <<>>
    ELSE InsertByMomentum(SortByMomentum(SubSeq(s, 1, Len(s) - 1)),
                          s[Len(s)])

nlargest(n, s) == SubSeq(SortByMomentum(s), 1, Min(n, Len(s)))

nsmallest_unsorted(n, s) == SubSeq(s, 1, Min(n, Len(s)))

\* DataFrame.nsmallest(n, 'fip'), keep='first'
RECURSIVE InsertByFip(_, _)
InsertByFip(s, x) ==
    IF s = <<>> THEN <<x>>
    ELSE IF Head(s).fip <= x.fip
         THEN <<Head(s)>> \o InsertByFip(Tail(s), x)
         ELSE <<x>> \o s

RECURSIVE SortByFip(_)
SortByFip(s) ==
    IF s = <<>> THEN <<>>
    ELSE InsertByFip(SortByFip(SubSeq(s, 1, Len(s) - 1)), s[Len(s)])

nsmallest(n, s) == SubSeq(SortByFip(s), 1, Min(n, Len(s)))

select_portfolio_stocks(valid, top_momentum, bottom_fip) ==
    LET signal_results == SignalResults(valid, 1)
        actual_top_momentum == Min(top_momentum, Len(signal_results))
        df_top == nlargest(actual_top_momentum, signal_results)
        actual_bottom_fip == Min(bottom_fip, Len(df_top))
    IN  IF Len(signal_results) < bottom_fip THEN <<>>
        ELSE nsmallest(actual_bottom_fip, df_top)

\* before main calls select_portfolio_stocks on a universe of up to
\* MaxUniverse instruments
InitPortfolioSelect ==
    /\ InitCommon
    /\ tick_price = NoneInt
    /\ account = EmptyHoldings
    /\ budget = [failures |-> 0, lost |-> 0, io |-> 0]
    /\ runs_left = 0
    /\ mode = "find_item_fip"
    /\ df_buy = <<>>
    /\ candidate_returns = <<>>
    /\ \E n \in 0..MaxUniverse : signal_valid \in [1..n -> BOOLEAN]
    /\ selected_stocks = <<>>
    /\ NoMomentumInputs
    /\ NoMore

\* the call returns and main saves the portfolio or reports the failure
SelectPortfolio ==
    /\ mode = "find_item_fip"
    /\ pc = "idle"
    /\ exit_reason = ""
    /\ selected_stocks' =
           select_portfolio_stocks(signal_valid, TOP_MOMENTUM_COUNT,
                                   BOTTOM_FIP_COUNT)
    /\ exit_reason' = IF selected_stocks' # <<>> THEN "PortfolioSaved"
                      ELSE "SelectionFailed"
    /\ UNCHANGED <<now, ranked_success, tickVars, candidate_returns,
                   signal_valid, momentumVars, moreVars, logVars, account,
                   broker_orders, trace,
                   budget, runs_left, forced, mode, pc, args, gemLocals,
                   rankedVars>>

SpecPortfolioSelect == InitPortfolioSelect /\ [][SelectPortfolio]_vars

\* the values select_portfolio_stocks is called with for top_momentum and
\* bottom_fip: the defaults, and counts small enough to cut the universe
TopMomentumCounts == {MaxCount, TOP_MOMENTUM_COUNT}
BottomFipCounts == {MaxCount - 1, BOTTOM_FIP_COUNT}

\* before a call of select_portfolio_stocks(stock_codes, end_date,
\* top_momentum, bottom_fip)
InitSelectStocks ==
    /\ InitCommon
    /\ tick_price = NoneInt
    /\ account = EmptyHoldings
    /\ budget = [failures |-> 0, lost |-> 0, io |-> 0]
    /\ runs_left = 0
    /\ mode = "select_portfolio_stocks"
    /\ df_buy = <<>>
    /\ candidate_returns = <<>>
    /\ \E n \in 0..MaxUniverse : signal_valid \in [1..n -> BOOLEAN]
    /\ selected_stocks = <<>>
    /\ NoMomentumInputs
    /\ NoOverlap
    /\ NoTickPair
    /\ \E t \in TopMomentumCounts : \E b \in BottomFipCounts :
           call_args = <<[top_momentum |-> t, bottom_fip |-> b]>>
    /\ call_result = <<>>

\* the call returns
SelectStocks ==
    /\ mode = "select_portfolio_stocks"
    /\ call_result = <<>>
    /\ selected_stocks' =
           select_portfolio_stocks(signal_valid, call_args[1].top_momentum,
                                   call_args[1].bottom_fip)
    /\ call_result' = <<Len(selected_stocks')>>
    /\ UNCHANGED <<now, ranked_success, tickVars, candidate_returns,
                   signal_valid, momentumVars, overlap_runs, pairVars,
                   call_args, logVars, account, broker_orders, trace,
                   budget, runs_left, forced, mode, pc, args, exit_reason,
                   gemLocals, rankedVars>>

SpecSelectStocks == InitSelectStocks /\ [][SelectStocks]_vars

(***************************************************************************)
(* find_item_fip.py: the adjusted 12-month momentum of                     *)
(* calculate_momentum_and_fip_for_period.  Floats are exact fractions,      *)
(* kept in lowest terms with a positive denominator; NaN has denominator 0  *)
(***************************************************************************)
RECURSIVE GCD(_, _)
GCD(a, b) == IF b = 0 THEN a ELSE GCD(b, a % b)

Abs(a) == IF a < 0 THEN 0 - a ELSE a

Frac(n, dn) ==
    LET g == GCD(Abs(n), Abs(dn))
        sgn == IF dn < 0 THEN 0 - 1 ELSE 1
    IN  [num |-> sgn * (n \div g), den |-> sgn * (dn \div g)]

FAdd(x, y) == Frac(x.num * y.den + y.num * x.den, x.den * y.den)
FMul(x, y) == Frac(x.num * y.num, x.den * y.den)
FInt(n) == [num |-> n, den |-> 1]

MinMonthly == 13
MinReturns == 10

\* Series.pct_change(): NaN first, then the change relative to the
\* element before
pct_change(series) ==
    [k \in 1..Len(series) |->
        IF k = 1 THEN NaN
        ELSE Frac(series[k] - series[k - 1], series[k - 1])]

\* .iloc[-12:-1] taking the last eleven elements instead
MomentumWindow_recent(series) ==
    SubSeq(series, Len(series) - 10, Len(series))

\* .iloc[-12:-1]
MomentumWindow(series) ==
    SubSeq(series, Len(series) - 11, Len(series) - 1)

IsNumber(x) == x.den # 0

dropna(series) == SelectSeq(series, IsNumber)

monthly_returns(closes) ==
    LET changes == MomentumWindow(pct_change(closes))
    IN  [k \in 1..Len(changes) |->
            IF IsNumber(changes[k]) THEN FMul(changes[k], FInt(100))
            ELSE NaN]

\* the loop of lines 402-404
RECURSIVE CompoundReturns(_, _)
CompoundReturns(acc, rets) ==
    IF rets = <<>> THEN acc
    ELSE CompoundReturns(
             FMul(acc, FAdd(FInt(1), FMul(Head(rets), Frac(1, 100)))),
             Tail(rets))

\* NaN stands for the None the function returns
adjusted_momentum_12m(closes) ==
    IF Len(closes) < MinMonthly THEN NaN
    ELSE IF Len(dropna(monthly_returns(closes))) < MinReturns THEN NaN
    ELSE FMul(FAdd(CompoundReturns(FInt(1), dropna(monthly_returns(closes))),
                   FInt(0 - 1)),
              FInt(100))

MonthEndCloses == {100, 200}

\* df_monthly has been built from the daily bars
InitMomentum ==
    /\ InitCommon
    /\ tick_price = NoneInt
    /\ account = EmptyHoldings
    /\ budget = [failures |-> 0, lost |-> 0, io |-> 0]
    /\ runs_left = 0
    /\ mode = "momentum"
    /\ df_buy = <<>>
    /\ candidate_returns = <<>>
    /\ NoSelectionInputs
    /\ \E n \in (MinMonthly - 1)..(MinMonthly + MaxExtraMonths) :
           month_closes \in [1..n -> MonthEndCloses]
    /\ momentum_12m_adj = NaN
    /\ NoMore

\* lines 393-405
ComputeMomentum ==
    /\ mode = "momentum"
    /\ exit_reason = ""
    /\ momentum_12m_adj' = adjusted_momentum_12m(month_closes)
    /\ exit_reason' = IF IsNumber(momentum_12m_adj') THEN "SignalComputed"
                      ELSE "SignalAbsent"
    /\ UNCHANGED <<now, ranked_success, tickVars, candidate_returns,
                   signal_valid, selected_stocks, month_closes, moreVars,
                   logVars,
                   account, broker_orders, trace, budget, runs_left, forced,
                   mode, pc, args, gemLocals, rankedVars>>

SpecMomentum == InitMomentum /\ [][ComputeMomentum]_vars

(***************************************************************************)
(* Several live runs of buy_gem.py (--execute, no --force) in one month,   *)
(* each its own process, sharing gem_execution_log.json and the account.   *)
(* The file system works; a run's steps between the guard and the record   *)
(* are taken as one step that submits the run's orders.                    *)
(***************************************************************************)
OverlapRuns == 1..MaxOverlap

InitOverlap ==
    /\ InitCommon
    /\ tick_price = NoneInt
    /\ candidate_returns = <<>>
    /\ NoSelectionInputs
    /\ NoMomentumInputs
    /\ NoTickPair
    /\ NoCall
    /\ account = EmptyHoldings
    /\ budget = [failures |-> 0, lost |-> 0, io |-> 0]
    /\ runs_left = 0
    /\ mode = "overlap"
    /\ df_buy = <<>>
    /\ overlap_runs = [p \in OverlapRuns |->
                          [pc |-> "idle", log_data |-> <<>>,
                           success |-> FALSE, submitted |-> FALSE,
                           during |-> {}]]

OverlapFrame ==
    UNCHANGED <<now, ranked_success, tickVars, candidate_returns,
                signal_valid, selected_stocks, momentumVars, pairVars,
                callVars, log_corrupt,
                account, trace, budget, runs_left, forced, mode, pc, args,
                exit_reason, gemLocals, rankedVars>>

\* the run is started
OverlapStart(p) ==
    /\ mode = "overlap"
    /\ overlap_runs[p].pc = "idle"
    /\ overlap_runs' = [overlap_runs EXCEPT ![p].pc = "guard"]
    /\ UNCHANGED <<execution_log, broker_orders>>
    /\ OverlapFrame

\* main: if check_monthly_execution(): return
OverlapGuard(p) ==
    /\ mode = "overlap"
    /\ overlap_runs[p].pc = "guard"
    /\ overlap_runs' = [overlap_runs EXCEPT
          ![p].pc = IF AlreadyExecuted(load_execution_log(TRUE), now)
                    THEN "done" ELSE "cycle",
          ![p].during = {q \in OverlapRuns \ {p} :
                            overlap_runs[q].pc \in {"cycle", "load", "save"}}]
    /\ UNCHANGED <<execution_log, broker_orders>>
    /\ OverlapFrame

\* main from initialize_kis to the return of execute_rebalancing
OverlapCycle(p, success) ==
    /\ mode = "overlap"
    /\ overlap_runs[p].pc = "cycle"
    /\ broker_orders' = Append(broker_orders,
          [side |-> "buy", code |-> target_codes[1], qty |-> 1,
           price |-> 300, condition |-> "None"])
    /\ overlap_runs' = [overlap_runs EXCEPT ![p].pc = "load",
                                            ![p].success = success,
                                            ![p].submitted = TRUE]
    /\ UNCHANGED execution_log
    /\ OverlapFrame

\* record_execution: log_data = load_execution_log()
OverlapLoad(p) ==
    /\ mode = "overlap"
    /\ overlap_runs[p].pc = "load"
    /\ overlap_runs' = [overlap_runs EXCEPT
          ![p].pc = "save",
          ![p].log_data = load_execution_log(TRUE)]
    /\ UNCHANGED <<execution_log, broker_orders>>
    /\ OverlapFrame

\* record_execution: append the record, save_execution_log(log_data)
OverlapSave(p) ==
    /\ mode = "overlap"
    /\ overlap_runs[p].pc = "save"
    /\ execution_log' = Append(overlap_runs[p].log_data,
          [month |-> now, selected_code |-> target_codes[1],
           success |-> overlap_runs[p].success])
    /\ overlap_runs' = [overlap_runs EXCEPT ![p].pc = "done"]
    /\ UNCHANGED broker_orders
    /\ OverlapFrame

NextOverlap ==
    \E p \in OverlapRuns :
        \/ OverlapStart(p)
        \/ OverlapGuard(p)
        \/ \E success \in BOOLEAN : OverlapCycle(p, success)
        \/ OverlapLoad(p)
        \/ OverlapSave(p)

SpecOverlap == InitOverlap /\ [][NextOverlap]_vars

\* several runs of either script
InitBothRuns == InitRuns \/ InitRankedRuns

NextBothRuns == NextRuns \/ NextRankedRuns

SpecBothRuns == InitBothRuns /\ [][NextBothRuns]_vars

(***************************************************************************)
(* buy_gem.py: round_to_tick_size called with two prices and with what it  *)
(* returned                                                                *)
(***************************************************************************)
\* a price and a price that is not below it: up to TickCycles above, or the
\* lower limit of a higher band
TickPartners(p) ==
    {q \in {p + d : d \in 0..TickCycles} \cup {b.lo : b \in TickBands} :
        p <= q}

InitTickPair ==
    /\ InitCommon
    /\ tick_price = NoneInt
    /\ candidate_returns = <<>>
    /\ NoSelectionInputs
    /\ NoMomentumInputs
    /\ NoOverlap
    /\ NoCall
    /\ account = EmptyHoldings
    /\ budget = [failures |-> 0, lost |-> 0, io |-> 0]
    /\ runs_left = 0
    /\ mode = "round_to_tick_size_pair"
    /\ df_buy = <<>>
    /\ \E p \in TickPrices : \E q \in TickPartners(p) : tick_pair = <<p, q>>
    /\ tick_calls = {}

TickArguments == {c.arg : c \in tick_calls}

\* round_to_tick_size(x) returns
RoundCall(x) ==
    /\ mode = "round_to_tick_size_pair"
    /\ x \notin TickArguments
    /\ tick_calls' = tick_calls
                       \cup {[arg |-> x, ret |-> round_to_tick_size(x)]}
    /\ UNCHANGED <<now, ranked_success, tickVars, candidate_returns,
                   signal_valid, selected_stocks, momentumVars,
                   overlap_runs, tick_pair, callVars, logVars, account,
                   broker_orders,
                   trace, budget, runs_left, forced, mode, pc, args,
                   exit_reason, gemLocals, rankedVars>>

\* a call with one of the two prices
RoundPrice == \E k \in 1..2 : RoundCall(tick_pair[k])

\* a call with what the call with one of the two prices returned
RoundRounded ==
    \E c \in tick_calls :
        /\ c.arg \in {tick_pair[1], tick_pair[2]}
        /\ RoundCall(c.ret)

NextTickPair == RoundPrice \/ RoundRounded

SpecTickPair == InitTickPair /\ [][NextTickPair]_vars

(***************************************************************************)
(* buy_gem.py: calculate_12m_total_return                                  *)
(*                                                                         *)
(* Dates are day numbers counted from today (today is day 0); the          *)
(* "%Y%m%d" strings the code builds from them are in one-to-one            *)
(* correspondence with the day numbers and are not modelled.               *)
(***************************************************************************)
YearDays == 365
LastOffset == 9

\* what the NAV endpoint has for the day: the NAV on a day of `valid`, and
\* elsewhere a NAV of 0 or no row at all
RawNav(valid, date) ==
    IF date \in valid THEN 1000 + date
    ELSE IF date % 2 = 0 THEN 0 ELSE NoneInt

\* get_single_nav: None for an empty output, a NAV <= 0 or any error
get_single_nav(valid, date) ==
    IF RawNav(valid, date) = NoneInt \/ RawNav(valid, date) <= 0
    THEN NoneInt
    ELSE RawNav(valid, date)

SearchDate_forward(base, offset) == base + offset

\* adjusted_date = today - timedelta(days=365+offset), or days=offset
SearchDate(base, offset) == base - offset

\* for offset in range(1, 10): the first adjusted date with a NAV, as a
\* sequence of one date, or the empty sequence when the loop ends without
RECURSIVE SearchNav(_, _, _)
SearchNav(valid, base, offset) ==
    IF offset > LastOffset THEN <<>>
    ELSE IF get_single_nav(valid, SearchDate(base, offset)) # NoneInt
         THEN <<SearchDate(base, offset)>>
         ELSE SearchNav(valid, base, offset + 1)

\* the date an endpoint is resolved to: the requested one when it has a
\* NAV, else what the loop finds
ResolveEndpoint(valid, base) ==
    IF get_single_nav(valid, base) # NoneInt THEN <<base>>
    ELSE SearchNav(valid, base, 1)

\* the days a dividend of 5 per share is paid on
DividendDays == {0 - 368, 0 - 2}

\* get_dividends: the sum of the dividends the endpoint lists for F_DT..T_DT
get_dividends(start_date, end_date) ==
    5 * Cardinality({d \in DividendDays : start_date <= d /\ d <= end_date})

\* None is the empty sequence, a result a sequence of one record
calculate_12m_total_return(valid) ==
    LET start == ResolveEndpoint(valid, 0 - YearDays)
        end == ResolveEndpoint(valid, 0)
    IN  IF start = <<>> \/ end = <<>> THEN <<>>
        ELSE <<[start_date |-> start[1],
                end_date |-> end[1],
                nav_start |-> get_single_nav(valid, start[1]),
                nav_end |-> get_single_nav(valid, end[1]),
                total_dividend |-> get_dividends(start[1], end[1])]>>

\* the days around a requested date the NAV source is drawn over
WindowDays(base) == (base - (LastOffset + 1))..(base + MaxForward)

ValidDaySets(base) ==
    {S \in SUBSET WindowDays(base) : Cardinality(S) <= MaxValid}

InitTotalReturn ==
    /\ InitCommon
    /\ tick_price = NoneInt
    /\ account = EmptyHoldings
    /\ budget = [failures |-> 0, lost |-> 0, io |-> 0]
    /\ runs_left = 0
    /\ mode = "calculate_12m_total_return"
    /\ df_buy = <<>>
    /\ candidate_returns = <<>>
    /\ NoSelectionInputs
    /\ NoMomentumInputs
    /\ NoOverlap
    /\ NoTickPair
    /\ \E S \in ValidDaySets(0 - YearDays) : \E E \in ValidDaySets(0) :
           call_args = <<[valid_days |-> S \cup E]>>
    /\ call_result = <<>>

\* the call returns
TotalReturn ==
    /\ mode = "calculate_12m_total_return"
    /\ call_result = <<>>
    /\ call_result' = <<calculate_12m_total_return(call_args[1].valid_days)>>
    /\ UNCHANGED <<now, ranked_success, tickVars, candidate_returns,
                   signal_valid, selected_stocks, momentumVars,
                   overlap_runs, pairVars, call_args, logVars, account,
                   broker_orders, trace, budget, runs_left, forced, mode,
                   pc, args, exit_reason, gemLocals, rankedVars>>

SpecTotalReturn == InitTotalReturn /\ [][TotalReturn]_vars

(***************************************************************************)
(* find_item_fip.py: calculate_momentum_and_fip_for_period, its checks     *)
(*                                                                         *)
(* The call is given by the sizes of the frames it builds and by the       *)
(* stage at which pandas or the date arithmetic raises, if any:            *)
(*   1 fetching (374-375)         5 momentum, daily frame (402-409)        *)
(*   2 period frame (379-383)     6 daily returns (414-419)                *)
(*   3 monthly frame (388-391)    7 ratios, last date, result (424-441)    *)
(*   4 monthly returns (397)                                               *)
(***************************************************************************)
MinBars == 250
MinDaily == 200
LastStage == 7

EnoughBars_any(n) == TRUE

\* not (len(df) < 250), not (len(df_period) < 250)
EnoughBars(n) == n >= MinBars

SignalAbsent == [raised |-> FALSE, value |-> <<>>]
SignalRaised == [raised |-> TRUE, value |-> <<>>]

\* the body of the try block
SignalBody(inp) ==
    IF inp.raises = 1 THEN SignalRaised
    ELSE IF inp.bars = NoneInt \/ ~EnoughBars(inp.bars) THEN SignalAbsent
    ELSE IF inp.raises = 2 THEN SignalRaised
    ELSE IF ~EnoughBars(inp.period_bars) THEN SignalAbsent
    ELSE IF inp.raises = 3 THEN SignalRaised
    ELSE IF inp.monthly < MinMonthly THEN SignalAbsent
    ELSE IF inp.raises = 4 THEN SignalRaised
    ELSE IF inp.valid_returns < MinReturns THEN SignalAbsent
    ELSE IF inp.raises = 5 THEN SignalRaised
    ELSE IF inp.daily < MinDaily THEN SignalAbsent
    ELSE IF inp.raises = 6 THEN SignalRaised
    ELSE IF inp.total_days = 0 THEN SignalAbsent
    ELSE IF inp.raises = 7 THEN SignalRaised
    ELSE [raised |-> FALSE,
          value |-> <<[bars |-> inp.period_bars, monthly |-> inp.monthly]>>]

OnException_raise(r) == r

\* except Exception: log and return None
OnException(r) == SignalAbsent

calculate_momentum_and_fip_for_period(inp) ==
    IF SignalBody(inp).raised THEN OnException(SignalBody(inp))
    ELSE SignalBody(inp)

BarCounts == (MinBars - 1)..(MinBars + MaxExtraBars)

\* the calls examined
SignalInputs ==
    {inp \in [bars : BarCounts \cup {NoneInt},
              period_bars : BarCounts \cup {NoneInt},
              monthly : (MinMonthly - 1)..(MinMonthly + MaxExtraMonths),
              valid_returns : (MinReturns - 1)..(MinMonthly - 2),
              daily : (MinDaily - 1)..(MinDaily + MaxExtraBars),
              total_days : {0, MinDaily - 1},
              raises : 0..LastStage] :
        /\ (inp.bars = NoneInt) <=> (inp.period_bars = NoneInt)
        /\ inp.period_bars <= inp.bars
        /\ inp.daily <= inp.period_bars \/ inp.bars = NoneInt}

InitSignal ==
    /\ InitCommon
    /\ tick_price = NoneInt
    /\ account = EmptyHoldings
    /\ budget = [failures |-> 0, lost |-> 0, io |-> 0]
    /\ runs_left = 0
    /\ mode = "calculate_momentum_and_fip_for_period"
    /\ df_buy = <<>>
    /\ candidate_returns = <<>>
    /\ NoSelectionInputs
    /\ NoMomentumInputs
    /\ NoOverlap
    /\ NoTickPair
    /\ \E inp \in SignalInputs : call_args = <<inp>>
    /\ call_result = <<>>

\* the call returns or raises
ComputeSignal ==
    /\ mode = "calculate_momentum_and_fip_for_period"
    /\ call_result = <<>>
    /\ call_result' = <<calculate_momentum_and_fip_for_period(call_args[1])>>
    /\ UNCHANGED <<now, ranked_success, tickVars, candidate_returns,
                   signal_valid, selected_stocks, momentumVars,
                   overlap_runs, pairVars, call_args, logVars, account,
                   broker_orders, trace, budget, runs_left, forced, mode,
                   pc, args, exit_reason, gemLocals, rankedVars>>

SpecSignal == InitSignal /\ [][ComputeSignal]_vars

(***************************************************************************)
(* portfolio_scheduler.py                                                  *)
(*                                                                         *)
(* call_args holds what the process is started with: its command line,     *)
(* the day, the state of portfolio_schedule.json, whether buy_portfolio.py *)
(* lies beside the scheduler and whether a line can be read from standard  *)
(* input.  call_result holds the process: its position, the subprocess     *)
(* calls it made and its exit status.                                      *)
(***************************************************************************)
\* datetime.now().strftime("%Y-%m-%d") on the days of the model
DateStrings == <<"2025-11-14", "2025-11-15", "2025-11-16", "2025-11-17">>

Days == 1..MaxDay

\* what a trading_dates list may hold: formatted dates and another string
ScheduleEntries == {DateStrings[day] : day \in Days} \cup {"11/15/2025"}

\* portfolio_schedule.json: absent; not parseable; JSON that is no object;
\* an object without trading_dates; an object with the list
ScheduleFiles ==
    {[kind |-> k, trading_dates |-> {}] :
        k \in {"missing", "invalid", "not_object", "no_key"}}
    \cup {[kind |-> "object", trading_dates |-> S] :
             S \in SUBSET ScheduleEntries}

\* sys.argv[1:]
CommandLines ==
    {<<>>, <<"--execute">>, <<"--secret", "secret.json", "--execute">>}

SchedulerAt(p, status, launched, returncode) ==
    <<[pc |-> p, status |-> status, launched |-> launched,
       returncode |-> returncode]>>

InitScheduler ==
    /\ InitCommon
    /\ tick_price = NoneInt
    /\ account = EmptyHoldings
    /\ budget = [failures |-> 0, lost |-> 0, io |-> 0]
    /\ runs_left = 0
    /\ mode = "portfolio_scheduler"
    /\ df_buy = <<>>
    /\ candidate_returns = <<>>
    /\ NoSelectionInputs
    /\ NoMomentumInputs
    /\ NoOverlap
    /\ NoTickPair
    /\ \E file \in ScheduleFiles, today \in Days, argv \in CommandLines,
          script_exists \in BOOLEAN, stdin_line \in BOOLEAN :
           call_args = <<[schedule_file |-> file, today |-> today,
                          argv |-> argv, script_exists |-> script_exists,
                          stdin_line |-> stdin_line]>>
    /\ call_result = <<>>

SchedulerFrame ==
    UNCHANGED <<now, ranked_success, tickVars, candidate_returns,
                signal_valid, selected_stocks, momentumVars,
                overlap_runs, pairVars, call_args, logVars, account,
                broker_orders, trace, budget, runs_left, forced, mode,
                pc, args, exit_reason, gemLocals, rankedVars>>

\* load_schedule: sys.exit(1) when the file is missing or cannot be loaded
LoadSchedule ==
    /\ mode = "portfolio_scheduler"
    /\ call_result = <<>>
    /\ call_result' =
           IF call_args[1].schedule_file.kind \in {"missing", "invalid"}
           THEN SchedulerAt("exit", 1, <<>>, NoneInt)
           ELSE SchedulerAt("is_trading_day", NoneInt, <<>>, NoneInt)
    /\ SchedulerFrame

is_trading_day_always(schedule, today) == TRUE

\* today in schedule.get('trading_dates', [])
is_trading_day(schedule, today) ==
    DateStrings[today] \in schedule.trading_dates

\* main calls is_trading_day and returns when it is False; a schedule that
\* is no JSON object has no get and the process ends with a traceback
CheckTradingDay ==
    /\ mode = "portfolio_scheduler"
    /\ call_result # <<>>
    /\ call_result[1].pc = "is_trading_day"
    /\ call_result' =
           IF call_args[1].schedule_file.kind = "not_object"
           THEN SchedulerAt("exit", 1, <<>>, NoneInt)
           ELSE IF ~is_trading_day(call_args[1].schedule_file,
                                   call_args[1].today)
           THEN SchedulerAt("exit", 0, <<>>, NoneInt)
           ELSE SchedulerAt("args", NoneInt, <<>>, NoneInt)
    /\ SchedulerFrame

\* without arguments main warns and waits for Enter: input() returns when
\* a line can be read and raises EOFError otherwise
CheckArguments ==
    /\ mode = "portfolio_scheduler"
    /\ call_result # <<>>
    /\ call_result[1].pc = "args"
    /\ call_result' =
           IF call_args[1].argv = <<>> /\ ~call_args[1].stdin_line
           THEN SchedulerAt("exit", 1, <<>>, NoneInt)
           ELSE SchedulerAt("execute_portfolio_script", NoneInt, <<>>,
                            NoneInt)
    /\ SchedulerFrame

\* cmd = [sys.executable, str(script_path)] + args
PortfolioCommand(argv) ==
    <<"python", "buy_portfolio.py">> \o argv

\* execute_portfolio_script and the end of main: returncode is what the
\* script exits with, or 1 when subprocess.run raises
ExecutePortfolioScript(returncode) ==
    /\ mode = "portfolio_scheduler"
    /\ call_result # <<>>
    /\ call_result[1].pc = "execute_portfolio_script"
    /\ call_result' =
           IF ~call_args[1].script_exists
           THEN SchedulerAt("exit", 0, <<>>, 1)
           ELSE SchedulerAt("exit", 0,
                            <<PortfolioCommand(call_args[1].argv)>>,
                            returncode)
    /\ SchedulerFrame

NextScheduler ==
    \/ LoadSchedule
    \/ CheckTradingDay
    \/ CheckArguments
    \/ \E returncode \in 0..1 : ExecutePortfolioScript(returncode)

SpecScheduler == InitScheduler /\ [][NextScheduler]_vars

\* one run of either script
InitBoth == Init \/ InitRanked

NextBoth == Next \/ NextRanked

SpecBoth == InitBoth /\ [][NextBoth]_vars

\* one run of either script with a broker that takes no order it reports
\* as failed.  A script is one sequential process: every broker call
\* returns or raises and every sleep ends, so the step it is at is taken
\* in the end
InitBothFair ==
    /\ InitCommon
    /\ tick_price = NoneInt
    /\ NoInputs
    /\ account \in Accounts
    /\ budget = [failures |-> MaxFailures, lost |-> 0, io |-> 0]
    /\ runs_left = 1
    /\ mode \in {"gem", "ranked"}
    /\ df_buy = <<>>

SpecBothFair == InitBothFair /\ [][NextBoth]_vars /\ WF_vars(NextBoth)

(***************************************************************************)
(* Vocabulary of the properties                                            *)
(***************************************************************************)
\* positions of the history at which the order (side, code) was submitted
Submissions(side, code) ==
    {i \in 1..Len(trace) : trace[i].op = side /\ trace[i].code = code}

\* an error message that matches the terminal keyword set
MatchesTerminalKeyword(msg) ==
    \E i \in 1..Len(msg) : msg[i] \in no_retry_keywords

\* the submission at position i raised an error
Raised(i) == trace[i].out \in {"error", "lost"}

BuySubmitted == \E i \in 1..Len(trace) : trace[i].op = "buy"

\* the order results of the cycle, of either script, in one form
GemRecorded ==
    [i \in 1..Len(results.sell_orders) |->
        [side |-> "sell", code |-> results.sell_orders[i].code,
         failed |-> results.sell_orders[i].status = "failed",
         rec |-> results.sell_orders[i]]]
    \o [i \in 1..Len(results.buy_order) |->
        [side |-> "buy", code |-> results.buy_order[i].code,
         failed |-> results.buy_order[i].status = "failed",
         rec |-> results.buy_order[i]]]

IsOrderResult(r) == r.status \notin {"skipped", "unchanged"}

RankedRecorded ==
    LET rs == SelectSeq(order_results, IsOrderResult)
    IN  [i \in 1..Len(rs) |->
            [side |-> IF rs[i].status \in {"buy_success", "buy_failed"}
                      THEN "buy" ELSE "sell",
             code |-> rs[i].code,
             failed |-> rs[i].status \in
                          {"liquidate_failed", "sell_failed", "buy_failed"},
             rec |-> rs[i]]]

Recorded == IF mode = "gem" THEN GemRecorded ELSE RankedRecorded

RecordsOf(side, code) ==
    {k \in 1..Len(Recorded) :
        Recorded[k].side = side /\ Recorded[k].code = code}

SuccessRecords(month) ==
    {i \in 1..Len(execution_log) :
        execution_log[i].month = month /\ execution_log[i].success}

NonTargetHeld == {c \in Codes : holdings[c] > 0 /\ c # best_stock}

SellFailedRecorded ==
    \E k \in 1..Len(results.sell_orders) :
        results.sell_orders[k].status = "failed"

BuySucceeded ==
    /\ results.buy_order # <<>>
    /\ results.buy_order[1].status = "success"

(***************************************************************************)
(* C1  Monthly guard of the single-winner script: when the execution log   *)
(* holds a record of the current month with success = true, a live run     *)
(* without --force returns from the guard with AlreadyExecuted, before     *)
(* any broker interaction; when it holds no such record, the run goes on   *)
(* to the authentication.                                                  *)
(***************************************************************************)
C1_GuardAbortsOnSuccessRecord ==
    [][pc = "guard" =>
        IF SuccessRecords(now) # {}
        THEN /\ pc' = "idle"
             /\ exit_reason' = "AlreadyExecuted"
             /\ broker_orders' = <<>>
        ELSE pc' = "auth"]_vars

(***************************************************************************)
(* C2  As long as no run used --force, the execution log holds at most     *)
(* one record with success = true for any month.                           *)
(***************************************************************************)
C2_OneSuccessPerMonth ==
    ~forced => \A m \in 1..MaxMonth : Cardinality(SuccessRecords(m)) <= 1

(***************************************************************************)
(* C3  Single-winner cycle: once the buy of the target is being prepared   *)
(* or has been submitted, every non-target holding has its sell result     *)
(* recorded, and no sell is submitted after a buy.                         *)
(***************************************************************************)
C3_SellsRecordedBeforeBuy ==
    mode = "gem" =>
        /\ (pc \in {"price", "buy"} \/ BuySubmitted) =>
               \A c \in NonTargetHeld : RecordsOf("sell", c) # {}
        /\ \A i, j \in 1..Len(trace) :
               (trace[i].op = "buy" /\ trace[j].op = "sell") => j < i

C3_Witness ==
    /\ mode = "gem"
    /\ BuySubmitted
    /\ Cardinality(NonTargetHeld) = 2
    /\ SellFailedRecorded

C5_TerminalStopsRetries ==
    \A i \in 1..Len(trace) :
        (/\ IsOrder(trace[i])
         /\ Raised(i)
         /\ MatchesTerminalKeyword(trace[i].msg)) =>
            /\ \A j \in Submissions(trace[i].op, trace[i].code) : j <= i
            /\ \E k \in RecordsOf(trace[i].op, trace[i].code) :
                   Recorded[k].failed

C5_Witness ==
    \E i \in 1..Len(trace) :
        /\ IsOrder(trace[i])
        /\ trace[i].att = 1
        /\ Raised(i)
        /\ MatchesTerminalKeyword(trace[i].msg)
        /\ Cardinality(Submissions(trace[i].op, trace[i].code)) = 1
        /\ \E j \in 1..Len(trace) : j > i /\ IsOrder(trace[j])

(***************************************************************************)
(* C6  In both scripts, an order whose every submission failed with a      *)
(* non-terminal error is submitted at most MAX_RETRIES times; it is        *)
(* recorded, once and as failed, exactly when it has been submitted        *)
(* MAX_RETRIES times, and the cycle does not go on to another order        *)
(* before that.                                                            *)
(***************************************************************************)
AllTransient(subs) ==
    /\ subs # {}
    /\ \A i \in subs : Raised(i) /\ ~MatchesTerminalKeyword(trace[i].msg)

C6_TransientExhaustsRetries ==
    \A side \in {"sell", "buy"}, code \in Codes :
        LET subs == Submissions(side, code)
            recs == RecordsOf(side, code)
        IN  AllTransient(subs) =>
                /\ Cardinality(subs) <= MAX_RETRIES
                /\ Cardinality(recs) =
                       (IF Cardinality(subs) = MAX_RETRIES THEN 1 ELSE 0)
                /\ \A k \in recs : Recorded[k].failed
                /\ (\/ pc \in {"check", "price", "report", "results", "idle"}
                    \/ \E j \in 1..Len(trace) :
                          /\ IsOrder(trace[j])
                          /\ j \notin subs
                          /\ \E i \in subs : i < j)
                   => Cardinality(subs) = MAX_RETRIES

C6_Witness ==
    \E side \in {"sell", "buy"}, code \in Codes :
        /\ AllTransient(Submissions(side, code))
        /\ Cardinality(Submissions(side, code)) = MAX_RETRIES
        /\ \E k \in RecordsOf(side, code) : Recorded[k].failed

(***************************************************************************)
(* C7  Every order result records the number of submissions made for the   *)
(* order.                                                                  *)
(***************************************************************************)
C7_AttemptsRecorded ==
    \A k \in 1..Len(Recorded) :
        /\ "attempts" \in DOMAIN Recorded[k].rec
        /\ Recorded[k].rec.attempts =
               Cardinality(Submissions(Recorded[k].side, Recorded[k].code))

(***************************************************************************)
(* C8  Within one cycle the broker accepts at most one order for the same  *)
(* instrument and side.                                                    *)
(***************************************************************************)
C8_AtMostOneAcceptedOrder ==
    \A side \in {"sell", "buy"}, code \in Codes :
        Cardinality({n \in 1..Len(broker_orders) :
                        /\ broker_orders[n].side = side
                        /\ broker_orders[n].code = code}) <= 1

(***************************************************************************)
(* C9  Single-winner cycle: the success flag is never true unless the      *)
(* target was held at the start or its buy succeeded, and when the cycle   *)
(* has returned the flag is true exactly in those two cases, whatever the  *)
(* sell results are.                                                       *)
(***************************************************************************)
C9_SuccessIffTargetAcquired ==
    (mode = "gem" /\ best_stock \in Codes) =>
        /\ results.success => (holdings[best_stock] > 0 \/ BuySucceeded)
        /\ pc = "report" =>
               (results.success <=>
                   (holdings[best_stock] > 0 \/ BuySucceeded))

C9_Witness ==
    /\ mode = "gem"
    /\ pc = "report"
    /\ results.success
    /\ BuySucceeded
    /\ SellFailedRecorded

(***************************************************************************)
(* C10  Single-winner cycle: when the holdings read at the start show the  *)
(* target held, no buy and no sell of the target is submitted, no buy is   *)
(* prepared, and the cycle returns with success = true.                    *)
(***************************************************************************)
C10_HeldTargetIsKept ==
    (mode = "gem" /\ best_stock \in Codes /\ holdings[best_stock] > 0) =>
        /\ Submissions("sell", best_stock) = {}
        /\ Submissions("buy", best_stock) = {}
        /\ pc \notin {"price", "buy"}
        /\ pc \in {"report", "idle"} => results.success

C10_Witness ==
    /\ mode = "gem"
    /\ pc = "report"
    /\ best_stock \in Codes
    /\ holdings[best_stock] > 0
    /\ SellFailedRecorded
    /\ results.success

(***************************************************************************)
(* C11  In both scripts, when the liquidation phase is over and the next   *)
(* phase begins, the settlement wait has been taken exactly when at least  *)
(* one liquidation sell succeeded.                                         *)
(***************************************************************************)
LiquidationPhaseOver ==
    \/ mode = "gem" /\ pc = "check"
    \/ mode = "ranked" /\ pc = "row" /\ idx = 0 /\ attempt = 1

SettleWaited ==
    \E i \in 1..Len(trace) : trace[i].op = "sleep" /\ trace[i].code = "settle"

SellSucceeded ==
    \E k \in 1..Len(Recorded) :
        Recorded[k].side = "sell" /\ ~Recorded[k].failed

C11_SettleIffLiquidationSucceeded ==
    LiquidationPhaseOver => (SettleWaited <=> SellSucceeded)

(***************************************************************************)
(* C12  Ranked mode: with delta the target quantity of a code (0 when the  *)
(* code is not in the plan) minus the quantity held at the start of the    *)
(* cycle (0 when not held), every sell submitted is for a code with        *)
(* delta < 0 and for |delta| shares, every buy is for a code with          *)
(* delta > 0 and for delta shares, and when the cycle is over every code   *)
(* with delta # 0 has had its order submitted.                             *)
(***************************************************************************)
TargetQty(c) ==
    IF c \in PlanCodes(df_buy)
    THEN df_buy[CHOOSE i \in 1..Len(df_buy) : df_buy[i].code = c].qty
    ELSE 0

Delta(c) == TargetQty(c) - holdings[c]

RankedCycleOver == mode = "ranked" /\ pc = "results"

C12_DiffCorrect ==
    mode = "ranked" =>
        /\ \A i \in 1..Len(trace) :
               /\ trace[i].op = "sell" =>
                      Delta(trace[i].code) < 0
                      /\ trace[i].qty = 0 - Delta(trace[i].code)
               /\ trace[i].op = "buy" =>
                      Delta(trace[i].code) > 0
                      /\ trace[i].qty = Delta(trace[i].code)
        /\ RankedCycleOver =>
               \A c \in Codes :
                   /\ Delta(c) < 0 => Submissions("sell", c) # {}
                   /\ Delta(c) > 0 => Submissions("buy", c) # {}

C12_Witness ==
    /\ RankedCycleOver
    /\ \E a, b, c \in Codes :
           /\ holdings[a] > 0 /\ Delta(a) = 0
           /\ holdings[b] > 0 /\ b \notin PlanCodes(df_buy)
           /\ Submissions("sell", b) # {}
           /\ Delta(c) > 0 /\ Submissions("buy", c) # {}

(***************************************************************************)
(* C13  In both scripts, within one cycle no instrument is the object of   *)
(* both a sell submission and a buy submission.                            *)
(***************************************************************************)
C13_NoSellAndBuyOfOneCode ==
    \A c \in Codes :
        ~(Submissions("sell", c) # {} /\ Submissions("buy", c) # {})

C13_Witness ==
    \E c1, c2 \in Codes :
        /\ Submissions("sell", c1) # {}
        /\ Submissions("buy", c2) # {}
        /\ holdings[c2] > 0

(***************************************************************************)
(* C14  Single-winner script: a live run (--execute) that returns from the *)
(* guard leaves the execution log as it was; every other live run, when    *)
(* it returns, has appended exactly one record, which carries the success  *)
(* flag of the run.                                                        *)
(***************************************************************************)
C14_OneRecordPerLiveRun ==
    [][(mode = "gem" /\ pc # "idle" /\ pc' = "idle" /\ args.execute) =>
          IF exit_reason' = "AlreadyExecuted"
          THEN execution_log' = execution_log
          ELSE /\ Len(execution_log') = Len(execution_log) + 1
               /\ execution_log'[Len(execution_log')].success
                      = results.success]_vars

(***************************************************************************)
(* C15  The execution log is append-only: a call of record_execution that *)
(* leaves a well-formed log file leaves every record persisted before it   *)
(* in the log, unchanged and in the same order, also when the read of the  *)
(* log fails during the call.                                              *)
(***************************************************************************)
IsPrefix(s, t) == Len(s) <= Len(t) /\ SubSeq(t, 1, Len(s)) = s

C15_AppendOnly ==
    [][(pc = "report" /\ pc' = "idle" /\ ~log_corrupt') =>
          IsPrefix(execution_log, execution_log')]_vars

(***************************************************************************)
(* C16  A failing read or write of the execution log does not alter the    *)
(* trading decision.  With a log that holds a success record of the        *)
(* current month, a live run without --force decides to submit no order;   *)
(* it submits none, whether or not an access to the log fails.             *)
(***************************************************************************)
C16_LogFailureKeepsDecision ==
    (/\ mode = "gem"
     /\ pc \notin {"idle", "report"}
     /\ args.execute /\ ~args.force
     /\ SuccessRecords(now) # {}) =>
        \A i \in 1..Len(trace) : ~IsOrder(trace[i])

(***************************************************************************)
(* C17  In both scripts a failed order does not end the cycle: when the    *)
(* cycle is over, every holding to liquidate has the result of its sell    *)
(* recorded, the single-winner script has entered its buy phase (it asked  *)
(* for the quote of the target) unless the target was held, and the        *)
(* ranked script has a result for every row of the plan, whichever orders  *)
(* failed on the way.                                                      *)
(***************************************************************************)
GemCycleOver == mode = "gem" /\ pc = "report"

C18_RankedRunIsGuarded ==
    (/\ mode = "ranked"
     /\ pc # "idle"
     /\ args.execute
     /\ ranked_success = now) =>
        \A i \in 1..Len(trace) : ~IsOrder(trace[i])

(***************************************************************************)
(* C19  For every positive integer price p, round_to_tick_size(p) is the   *)
(* least multiple of inc that is not below p, that is ceil(p / inc) * inc, *)
(* where inc is the increment of the band of p (1 below 1,000; 5 below     *)
(* 5,000; 10 below 10,000; 50 below 50,000; 100 below 100,000; 500 below   *)
(* 500,000; 1,000 otherwise); and 999 gives 999, 1001 gives 1005, 7777     *)
(* gives 7780, 123456 gives 123500 and 999999 gives 1000000.               *)
(***************************************************************************)
BandIncrement(p) ==
    IF p < 1000 THEN 1
    ELSE IF p < 5000 THEN 5
    ELSE IF p < 10000 THEN 10
    ELSE IF p < 50000 THEN 50
    ELSE IF p < 100000 THEN 100
    ELSE IF p < 500000 THEN 500
    ELSE 1000

C19_TickRounding ==
    (mode = "round_to_tick_size" /\ rounded # NoneInt) =>
        /\ rounded % BandIncrement(tick_price) = 0
        /\ rounded >= tick_price
        /\ rounded - tick_price < BandIncrement(tick_price)
        /\ tick_price = 999 => rounded = 999
        /\ tick_price = 1001 => rounded = 1005
        /\ tick_price = 7777 => rounded = 7780
        /\ tick_price = 123456 => rounded = 123500
        /\ tick_price = 999999 => rounded = 1000000

C19_Witness ==
    /\ mode = "round_to_tick_size"
    /\ tick_price = 999999
    /\ rounded = 1000000

(***************************************************************************)
(* C20  In both scripts, every buy submitted in a cycle is priced at       *)
(* round_to_tick_size of a live quote that was fetched for the same        *)
(* instrument earlier in that cycle.                                       *)
(***************************************************************************)
C20_BuyAtRoundedLiveQuote ==
    \A i \in 1..Len(trace) :
        trace[i].op = "buy" =>
            \E j \in 1..(i - 1) :
                /\ trace[j].op = "quote"
                /\ trace[j].code = trace[i].code
                /\ trace[j].price # NoneInt
                /\ trace[i].price = round_to_tick_size(trace[j].price)

(***************************************************************************)
(* C21  Single-winner selection: the instrument selected is a candidate    *)
(* whose total return was resolved and is the highest of the resolved      *)
(* returns; when several candidates have that return, it is the first of   *)
(* them in candidate order.                                                *)
(***************************************************************************)
Selected ==
    /\ mode = "gem"
    /\ pc = "idle"
    /\ exit_reason = "AnalysisOnly"
    /\ candidate_returns # <<>>

C21_FirstMaximumSelected ==
    Selected =>
        \E i \in 1..Len(target_codes) :
            /\ best_stock = target_codes[i]
            /\ candidate_returns[i] # NoneInt
            /\ \A j \in 1..Len(target_codes) :
                   candidate_returns[j] <= candidate_returns[i]
            /\ \A j \in 1..(i - 1) :
                   candidate_returns[j] < candidate_returns[i]

C21_Witness ==
    /\ Selected
    /\ best_stock = target_codes[2]
    /\ candidate_returns[2] = candidate_returns[3]
    /\ candidate_returns[1] # NoneInt

(***************************************************************************)
(* C22  Ranked selection with fewer than BOTTOM_FIP_COUNT instruments      *)
(* with valid signals, and at least one: the selector returns a non-empty  *)
(* selection, all of whose instruments have valid signals.                 *)
(***************************************************************************)
ValidSignals == {i \in DOMAIN signal_valid : signal_valid[i]}

SelectionReturned == mode = "find_item_fip" /\ exit_reason # ""

C22_ShortUniverseStillSelects ==
    (/\ SelectionReturned
     /\ Cardinality(ValidSignals) >= 1
     /\ Cardinality(ValidSignals) < BOTTOM_FIP_COUNT)
    => /\ selected_stocks # <<>>
       /\ \A k \in 1..Len(selected_stocks) :
              selected_stocks[k].code \in ValidSignals

(***************************************************************************)
(* C23  Momentum exclusion window: from at least 13 month-end closes the   *)
(* adjusted momentum is (P - 1) * 100, where P is the product of the 11    *)
(* month-over-month growth factors at positions -12..-2 of the monthly     *)
(* return series; P does not involve the last close, so the momentum is    *)
(* the same whatever the last month-end close is.                          *)
(***************************************************************************)
\* product of the closes at positions lo..hi, in units of 100 (a ratio of
\* two such products of equal length does not depend on the unit)
RECURSIVE CloseProduct(_, _)
CloseProduct(lo, hi) ==
    IF lo > hi THEN 1
    ELSE (month_closes[lo] \div 100) * CloseProduct(lo + 1, hi)

MomentumComputed == mode = "momentum" /\ exit_reason = "SignalComputed"

C23_MomentumExcludesLastMonth ==
    (mode = "momentum" /\ exit_reason # "")
    => LET n == Len(month_closes)
           grown == CloseProduct(n - 11, n - 1)
           base == CloseProduct(n - 12, n - 2)
       IN  IF n >= 13
           THEN /\ MomentumComputed
                /\ momentum_12m_adj.num * base
                      = 100 * (grown - base) * momentum_12m_adj.den
           ELSE ~MomentumComputed

C23_Witness ==
    /\ MomentumComputed
    /\ month_closes[Len(month_closes)]
          # month_closes[Len(month_closes) - 1]
    /\ momentum_12m_adj.num > 0

(***************************************************************************)
(* C24  Every rebalance cycle ends: no order, a sell or a buy of one       *)
(* instrument, is submitted more than MAX_RETRIES times, the submissions   *)
(* of a cycle number at most MAX_RETRIES times the planned actions, and a  *)
(* cycle that has begun reaches the point where it returns its results.    *)
(***************************************************************************)
OrderSubmissions == {i \in 1..Len(trace) : IsOrder(trace[i])}

\* the sells and buys the cycle has to make, given the holdings it read
PlannedActions ==
    IF mode = "gem"
    THEN Cardinality(NonTargetHeld)
         + (IF best_stock \in Codes /\ holdings[best_stock] = 0
            THEN 1 ELSE 0)
    ELSE Cardinality({c \in Codes : Delta(c) # 0})

InCycle == pc \in {"holdings", "sell", "check", "price", "buy",
                   "liquidate", "row"}

CycleOver == GemCycleOver \/ RankedCycleOver

RetriesBounded ==
    /\ \A side \in {"sell", "buy"}, c \in Codes :
           Cardinality(Submissions(side, c)) <= MAX_RETRIES
    /\ (OrderSubmissions # {}) =>
           Cardinality(OrderSubmissions) <= MAX_RETRIES * PlannedActions

C24_CycleTerminatesWithinRetries ==
    /\ []RetriesBounded
    /\ (InCycle ~> CycleOver)

C24_Witness ==
    /\ CycleOver
    /\ \E side \in {"sell", "buy"}, c \in Codes :
           Cardinality(Submissions(side, c)) = MAX_RETRIES
    /\ Cardinality(OrderSubmissions) > MAX_RETRIES

(***************************************************************************)
(* C25  A completed cycle holds exactly one result per planned action,     *)
(* whether the orders succeeded or failed.  Single-winner script: one sell *)
(* result for each non-target holding, no other sell result, and at most   *)
(* one buy result.  Ranked script: one result for each holding outside the *)
(* plan, one for each row of the plan, and no other.                       *)
(***************************************************************************)
OutsidePlanHeld == {c \in Codes : holdings[c] > 0 /\ c \notin PlanCodes(df_buy)}

SellResultsOf(c) ==
    {k \in 1..Len(results.sell_orders) : results.sell_orders[k].code = c}

OrderResultsOf(c) ==
    {k \in 1..Len(order_results) : order_results[k].code = c}

C25_OneResultPerPlannedAction ==
    /\ GemCycleOver =>
           /\ Len(results.sell_orders) = Cardinality(NonTargetHeld)
           /\ \A c \in NonTargetHeld : Cardinality(SellResultsOf(c)) = 1
           /\ Len(results.buy_order) <= 1
    /\ RankedCycleOver =>
           /\ Len(order_results)
                 = Cardinality(OutsidePlanHeld) + Len(df_buy)
           /\ \A c \in OutsidePlanHeld \cup PlanCodes(df_buy) :
                  Cardinality(OrderResultsOf(c)) = 1

C25_Witness ==
    /\ RankedCycleOver
    /\ OutsidePlanHeld # {}
    /\ Len(order_results) = 3
    /\ \E k \in 1..Len(order_results) :
           order_results[k].status = "liquidate_failed"
    /\ \E k \in 1..Len(order_results) :
           order_results[k].status = "buy_failed"

(***************************************************************************)
(* C26  In the liquidation phase (the sell loop of the single-winner       *)
(* script, phase 1 of the ranked script) every order submitted is a market *)
(* sell (no price, no condition) of an instrument that is held and is not  *)
(* a target, for the full quantity read at the start of the cycle; a retry *)
(* submits the same quantity.                                              *)
(***************************************************************************)
InLiquidationPhase ==
    \/ mode = "gem" /\ pc = "sell"
    \/ mode = "ranked" /\ pc = "liquidate"

Targets == IF mode = "gem" THEN {best_stock} ELSE PlanCodes(df_buy)

IsFullMarketSell(e) ==
    /\ e.op = "sell"
    /\ e.price = NoneInt
    /\ e.code \notin Targets
    /\ holdings[e.code] > 0
    /\ e.qty = holdings[e.code]

C26_LiquidationSellsAllOfNonTargets ==
    [][InLiquidationPhase =>
          /\ holdings' = holdings
          /\ \A i \in (Len(trace) + 1)..Len(trace') :
                 IsOrder(trace'[i]) => IsFullMarketSell(trace'[i])
          /\ \A k \in (Len(broker_orders) + 1)..Len(broker_orders') :
                 /\ broker_orders'[k].side = "sell"
                 /\ broker_orders'[k].price = NoneInt
                 /\ broker_orders'[k].condition = "None"
                 /\ broker_orders'[k].qty = holdings[broker_orders'[k].code]
          /\ \A i \in 1..Len(trace), j \in (Len(trace) + 1)..Len(trace') :
                 (/\ IsOrder(trace[i])
                  /\ IsOrder(trace'[j])
                  /\ trace[i].code = trace'[j].code)
                 => trace'[j].qty = trace[i].qty]_vars

C26_Witness ==
    /\ mode = "ranked"
    /\ \E i, j \in 1..Len(trace) :
           /\ i < j
           /\ trace[i].op = "sell"
           /\ trace[j].op = "sell"
           /\ trace[i].code = trace[j].code
           /\ trace[i].code \notin PlanCodes(df_buy)
           /\ trace[j].qty > 1
    /\ \E k \in 1..Len(broker_orders) :
           broker_orders[k].code \notin PlanCodes(df_buy)

(***************************************************************************)
(* C27  Pacing between orders, in both scripts: between the last           *)
(* submission of one order and the first submission of the next order of   *)
(* the cycle, for another instrument, the script sleeps for ORDER_DELAY at *)
(* least, whether the earlier order succeeded or failed.                   *)
(***************************************************************************)
\* positions i < j hold submissions of two orders that follow each other
NextOrder(i, j) ==
    /\ i < j
    /\ IsOrder(trace[i])
    /\ IsOrder(trace[j])
    /\ trace[i].code # trace[j].code
    /\ \A k \in (i + 1)..(j - 1) : ~IsOrder(trace[k])

C27_OrderDelayBetweenOrders ==
    \A i, j \in 1..Len(trace) :
        NextOrder(i, j) =>
            \E k \in (i + 1)..(j - 1) :
                /\ trace[k].op = "sleep"
                /\ trace[k].ms >= ORDER_DELAY

(***************************************************************************)
(* C28  Linear retry backoff of every order, in both scripts: attempt      *)
(* k + 1 directly follows a wait of RETRY_DELAY * k that directly follows  *)
(* the failed attempt k; nothing is waited before attempt 1; and a backoff *)
(* wait is only ever taken after a failure that is neither terminal nor    *)
(* the one of attempt MAX_RETRIES.                                         *)
(***************************************************************************)
IsBackoff(e) == e.op = "sleep" /\ e.code = "retry"

\* positions i < j hold attempts k and k + 1 of one order
Retried(i, j, k) ==
    /\ IsOrder(trace[i])
    /\ Raised(i)
    /\ trace[i].att = k
    /\ trace[j].op = trace[i].op
    /\ trace[j].code = trace[i].code
    /\ trace[j].att = k + 1

NothingToBuy(i) ==
    /\ trace[i].op = "quote"
    /\ \/ trace[i].price = NoneInt
       \/ (total_investment * BUFFER_PERCENT) \div 100 < trace[i].price

C29_NoBuyWithoutPriceOrQuantity ==
    (mode = "gem" /\ \E i \in 1..Len(trace) : NothingToBuy(i)) =>
        /\ holdings[best_stock] = 0
        /\ ~BuySubmitted
        /\ results.buy_order = <<>>
        /\ ~results.success
        /\ pc \in {"report", "idle"}
        /\ pc = "idle" =>
               /\ exit_reason = "Failed"
               /\ execution_log # <<>>
               /\ execution_log[Len(execution_log)]
                     = [month |-> now, selected_code |-> best_stock,
                        success |-> FALSE]
               /\ SuccessRecords(now) = {}

C29_Witness ==
    /\ mode = "gem"
    /\ pc = "idle"
    /\ \E i \in 1..Len(trace) :
           NothingToBuy(i) /\ trace[i].price # NoneInt
    /\ results.sell_orders # <<>>
    /\ Len(execution_log) = 1

(***************************************************************************)
(* C30  When the holdings query at the start of the cycle raises, the      *)
(* executor goes on as if nothing were held: it submits no sell, goes to   *)
(* the buy phase, and every buy is for the full target quantity.  The      *)
(* single-winner script asks for the quote of the target and buys all the  *)
(* buffered investment pays for, also when the account does hold the       *)
(* target; the ranked script buys the whole planned quantity of every row  *)
(* with a positive one.                                                    *)
(***************************************************************************)
HoldingsQueryRaised ==
    \E i \in 1..Len(trace) :
        trace[i].op = "holdings" /\ trace[i].out = "error"

Quoted(c) ==
    \E i \in 1..Len(trace) : trace[i].op = "quote" /\ trace[i].code = c

C30_FailedHoldingsQueryMeansNothingHeld ==
    HoldingsQueryRaised =>
        /\ \A c \in Codes : holdings[c] = 0
        /\ \A i \in 1..Len(trace) :
               /\ trace[i].op # "sell"
               /\ (trace[i].op = "buy" /\ mode = "gem") =>
                      /\ trace[i].code = best_stock
                      /\ trace[i].qty =
                            ((total_investment * BUFFER_PERCENT) \div 100)
                               \div trace[i].price
               /\ (trace[i].op = "buy" /\ mode = "ranked") =>
                      trace[i].qty = TargetQty(trace[i].code)
        /\ GemCycleOver => Quoted(best_stock)
        /\ RankedCycleOver =>
               \A c \in PlanCodes(df_buy) :
                   TargetQty(c) > 0 => Submissions("buy", c) # {}

C30_Witness ==
    /\ HoldingsQueryRaised
    /\ GemCycleOver
    /\ account[best_stock] > 0
    /\ BuySucceeded

(***************************************************************************)
(* C31  Two live runs of the single-winner script without --force that     *)
(* overlap within one month: they do not both pass the guard and submit    *)
(* orders, and the log never holds two records with success = true for     *)
(* the month.                                                              *)
(***************************************************************************)
Overlapped(p, q) ==
    p \in overlap_runs[q].during \/ q \in overlap_runs[p].during

DryRun == ~args.execute

DryRunQuiet ==
    DryRun =>
        /\ broker_orders = <<>>
        /\ \A i \in 1..Len(trace) :
               trace[i].op \notin {"sell", "buy", "load_log", "record"}
        /\ pc \in {"idle", "auth", "analyze"}
        /\ (mode = "ranked" /\ exit_reason # "") => exit_reason = "PlanOnly"

C32_DryRunChangesNothing ==
    /\ []DryRunQuiet
    /\ [][DryRun' => UNCHANGED logVars]_vars

C32_Witness ==
    /\ DryRun
    /\ execution_log # <<>>
    /\ mode = "gem"
    /\ exit_reason = "AnalysisOnly"

(***************************************************************************)
(* C33  For positive prices, what round_to_tick_size returns is a multiple *)
(* of the increment of the band the returned price lies in, also when the  *)
(* rounding crosses a band limit (4,999 gives 5,000); rounding a rounded   *)
(* price returns it unchanged; and of two prices the lower one is never    *)
(* rounded to more than the higher one.                                    *)
(***************************************************************************)
C33_TickValidIdempotentMonotone ==
    mode = "round_to_tick_size_pair" =>
        \A c \in tick_calls :
            /\ c.ret % BandIncrement(c.ret) = 0
            /\ c.arg = 4999 => c.ret = 5000
            /\ \A e \in tick_calls :
                   /\ e.arg = c.ret => e.ret = c.ret
                   /\ c.arg <= e.arg => c.ret <= e.ret

C33_Witness ==
    /\ mode = "round_to_tick_size_pair"
    /\ tick_pair = <<4999, 5000>>
    /\ Cardinality(tick_calls) = 2
    /\ \E c \in tick_calls : c.arg = 4999 /\ c.ret = 5000

(***************************************************************************)
(* C34  Single-winner buy quantity: with B the whole part of 99 % of the   *)
(* investment, the quantity is the whole part of B / price, so quantity *  *)
(* price is at most B and one share more costs more than B; an investment  *)
(* of 10,000,000 at a price of 50,000 gives 198.                           *)
(***************************************************************************)
Sized == mode = "buy_qty" /\ current_price # NoneInt

C34_BuyQuantityWithinBuffer ==
    Sized =>
        LET buffered == (total_investment * BUFFER_PERCENT) \div 100
        IN  /\ buy_qty * current_price <= buffered
            /\ (buy_qty + 1) * current_price > buffered
            /\ (total_investment = 10000000 /\ current_price = 50000)
                   => buy_qty = 198
            /\ pc = IF buy_qty <= 0 THEN "report" ELSE "buy"

C34_Witness ==
    /\ Sized
    /\ total_investment = 10000000
    /\ current_price = 50000
    /\ buy_qty = 198
    /\ pc = "buy"

(***************************************************************************)
(* C35  Ranked script, equal split: with n rows in the plan, the quantity  *)
(* of a row is the whole part of (TOTAL_INVESTMENT / n) / end_price, so    *)
(* the planned cost of a row is at most TOTAL_INVESTMENT / n, one share    *)
(* more would exceed it, and the planned costs of all rows sum to at most  *)
(* TOTAL_INVESTMENT.                                                       *)
(***************************************************************************)
RECURSIVE PlannedCost(_)
PlannedCost(i) ==
    IF i = 0 THEN 0
    ELSE df_buy[i].qty * df_buy[i].end_price + PlannedCost(i - 1)

C35_EqualSplitWithinCapital ==
    (mode = "ranked" /\ df_buy # <<>>) =>
        /\ \A i \in 1..Len(df_buy) :
               /\ df_buy[i].qty >= 0
               /\ df_buy[i].qty * df_buy[i].end_price * Len(df_buy)
                     <= TOTAL_INVESTMENT
               /\ (df_buy[i].qty + 1) * df_buy[i].end_price * Len(df_buy)
                     > TOTAL_INVESTMENT
        /\ PlannedCost(Len(df_buy)) <= TOTAL_INVESTMENT

C35_Witness ==
    /\ mode = "ranked"
    /\ Len(df_buy) = 2
    /\ df_buy[1].qty = 1
    /\ df_buy[2].qty = 1
    /\ pc = "results"

(***************************************************************************)
(* C36  Ranked selection: when at least bottom_fip instruments have valid  *)
(* signals, select_portfolio_stocks returns exactly min(bottom_fip, size   *)
(* of the momentum cut) instruments, each of them one of the               *)
(* min(top_momentum, valid count) instruments of highest momentum (ties    *)
(* kept in scan order), no instrument of that cut left out has a strictly  *)
(* lower FIP than a selected one, and an instrument without a signal is    *)
(* never selected.                                                         *)
(***************************************************************************)
StocksSelected == mode = "select_portfolio_stocks" /\ call_result # <<>>

\* the instruments ranked before instrument i by momentum
RankedBefore(i) ==
    {j \in ValidSignals :
        \/ Signal(j).adjusted_momentum_12m > Signal(i).adjusted_momentum_12m
        \/ /\ Signal(j).adjusted_momentum_12m = Signal(i).adjusted_momentum_12m
           /\ j < i}

MomentumCut ==
    {i \in ValidSignals :
        Cardinality(RankedBefore(i))
            < Min(call_args[1].top_momentum, Cardinality(ValidSignals))}

SelectedCodes == {selected_stocks[k].code : k \in 1..Len(selected_stocks)}

C36_SelectionIsLowFipOfMomentumCut ==
    (StocksSelected
     /\ Cardinality(ValidSignals) >= call_args[1].bottom_fip)
    => /\ Len(selected_stocks)
            = Min(call_args[1].bottom_fip, Cardinality(MomentumCut))
       /\ Cardinality(SelectedCodes) = Len(selected_stocks)
       /\ Cardinality(MomentumCut)
            = Min(call_args[1].top_momentum, Cardinality(ValidSignals))
       /\ SelectedCodes \subseteq MomentumCut
       /\ SelectedCodes \subseteq ValidSignals
       /\ \A k \in 1..Len(selected_stocks) :
              selected_stocks[k] = Signal(selected_stocks[k].code)
       /\ \A c \in MomentumCut \ SelectedCodes : \A e \in SelectedCodes :
              Signal(c).fip >= Signal(e).fip

\* the cut leaves out an instrument whose FIP is lower than a selected one,
\* and keeps more instruments than are selected
C36_Witness ==
    /\ StocksSelected
    /\ Cardinality(ValidSignals) > call_args[1].top_momentum
    /\ call_args[1].top_momentum > call_args[1].bottom_fip
    /\ Len(selected_stocks) = call_args[1].bottom_fip
    /\ \E i \in ValidSignals \ MomentumCut : \E e \in SelectedCodes :
           Signal(i).fip < Signal(e).fip
    /\ \E i \in DOMAIN signal_valid : ~signal_valid[i]

(***************************************************************************)
(* C37  Unresolved candidates: a candidate whose total return cannot be    *)
(* resolved is left out of the ranking and the run goes on with the        *)
(* others; the run stops at the analysis, before any order, exactly when   *)
(* no candidate was resolved.                                              *)
(***************************************************************************)
Analysed == mode = "gem" /\ candidate_returns # <<>> /\ pc # "analyze"

ResolvedCandidates ==
    {i \in 1..Len(target_codes) : candidate_returns[i] # NoneInt}

C37_UnresolvedCandidatesExcluded ==
    Analysed =>
        /\ broker_orders = <<>>
        /\ (exit_reason = "AnalysisFailed") <=> (ResolvedCandidates = {})
        /\ ResolvedCandidates # {} =>
               /\ \E i \in ResolvedCandidates : best_stock = target_codes[i]
               /\ IF args.execute
                  THEN pc = "invest" /\ exit_reason = ""
                  ELSE pc = "idle" /\ exit_reason = "AnalysisOnly"

C37_Witness ==
    /\ Analysed
    /\ args.execute
    /\ pc = "invest"
    /\ ResolvedCandidates = {2}
    /\ best_stock = target_codes[2]

(***************************************************************************)
(* C38  Total-return endpoints, as stated: an endpoint whose requested     *)
(* date (today - 365 days, today) has no valid NAV is resolved to the      *)
(* first of the 9 calendar days after the requested date that has one;     *)
(* the result is absent exactly when an endpoint has no valid NAV on the   *)
(* requested date or on any of those 9 days; the dividends are those of    *)
(* the resolved start date to the resolved end date.                       *)
(***************************************************************************)
TotalReturnReturned ==
    mode = "calculate_12m_total_return" /\ call_result # <<>>

HasNav(date) == RawNav(call_args[1].valid_days, date) > 0

\* the nearest day with a valid NAV among the requested date and the 9
\* days after it (direction 1) or before it (direction -1)
Nearest(base, direction) ==
    LET with == {k \in 0..LastOffset : HasNav(base + direction * k)}
    IN  {base + direction * k : k \in {j \in with : \A i \in with : j <= i}}

DividendsPaid(from, to) ==
    5 * Cardinality({d \in DividendDays : from <= d /\ d <= to})

EndpointsResolved(direction) ==
    LET start == Nearest(0 - YearDays, direction)
        end == Nearest(0, direction)
        ret == call_result[1]
    IN  /\ (ret = <<>>) <=> (start = {} \/ end = {})
        /\ ret # <<>> =>
               /\ ret[1].start_date \in start
               /\ ret[1].end_date \in end
               /\ ret[1].nav_start = 1000 + ret[1].start_date
               /\ ret[1].nav_end = 1000 + ret[1].end_date
               /\ ret[1].total_dividend
                      = DividendsPaid(ret[1].start_date, ret[1].end_date)

SignalReturned ==
    mode = "calculate_momentum_and_fip_for_period" /\ call_result # <<>>

C39_SignalPresentOnlyWithEnoughData ==
    SignalReturned =>
        /\ ~call_result[1].raised
        /\ call_result[1].value # <<>> =>
               /\ call_args[1].bars # NoneInt
               /\ call_args[1].bars >= 250
               /\ call_args[1].period_bars >= 250
               /\ call_args[1].monthly >= 13
               /\ call_args[1].raises = 0
        /\ (\/ call_args[1].bars < 250
            \/ call_args[1].monthly < 13
            \/ call_args[1].raises # 0) => call_result[1].value = <<>>

C39_Witness ==
    /\ SignalReturned
    /\ call_result[1].value # <<>>
    /\ call_args[1].period_bars < call_args[1].bars

(***************************************************************************)
(* C40  Scheduler, as stated: buy_portfolio.py is launched if and only if  *)
(* today's date is listed in trading_dates, with the scheduler's own       *)
(* arguments; on any other day nothing is launched; when the schedule      *)
(* file is missing or unreadable the scheduler exits with status 1 and     *)
(* launches nothing.                                                       *)
(***************************************************************************)
SchedulerExited ==
    /\ mode = "portfolio_scheduler"
    /\ call_result # <<>>
    /\ call_result[1].pc = "exit"

TodayListed ==
    /\ call_args[1].schedule_file.kind \in {"object", "no_key"}
    /\ \E day \in Days :
           /\ day = call_args[1].today
           /\ DateStrings[day] \in call_args[1].schedule_file.trading_dates

ScheduleUnreadable ==
    call_args[1].schedule_file.kind \in {"missing", "invalid"}

Launches == call_result[1].launched

ArgumentsPassedThrough ==
    /\ Len(Launches) = 1
    /\ Launches[1][2] = "buy_portfolio.py"
    /\ SubSeq(Launches[1], 3, Len(Launches[1])) = call_args[1].argv

SpecRuns == InitRuns /\ [][NextRuns]_vars

====
